---- MODULE Spec2Model ----
(***************************************************************************)
(* A model of the document-structuring pipeline of the resume parser:      *)
(* SectionDetector (section_detector.py), the entry extractors of          *)
(* CVPipeline (main.py) and EntityExtractor (entity_extractor.py), and     *)
(* EducationNormalizer.normalize (education_normalizer.py).                *)
(*                                                                         *)
(* Text.  A line of text is a sequence of tokens (words and punctuation    *)
(* marks, each a string); the blank line is the empty sequence.  A text    *)
(* of several lines is the sequence of its lines, i.e. what                *)
(* text.split('\n') returns; the empty string is therefore <<Blank>>.      *)
(* A literal pattern matches a line when its tokens occur in the line as   *)
(* a contiguous run (substring / regex search at token granularity).       *)
(***************************************************************************)
EXTENDS Integers, Sequences, FiniteSets, TLC

VARIABLES
    \* ---- SectionDetector object (built by __init__)
    section_rules,          \* self.section_rules, in declaration order
    confidence_threshold,   \* self.confidence_threshold, in percent
    min_heading_size,       \* self.min_heading_size
    \* ---- one call of _match_section_heading
    m_pc, m_text, m_font, m_result,
    m_stage,                \* which stage of _match_section_heading returned
    \* ---- one call of detect_sections
    d_pc,                   \* position in detect_sections
    document,               \* the argument: [raw_text, content]
    lines,                  \* raw_text.split('\n')
    i,                      \* index into lines (0-based, as in the code)
    sections,               \* the dict: section name -> section record
    section_keys,           \* the dict's key order (insertion order)
    current_section,
    current_content,
    bi, li,                 \* block index / line index of the block pass
    \* ---- history of the call (not program state)
    placed,                 \* the lines appended to a section: [src, at, sec, line]
    activated,              \* the raw lines (1-based) that made a section current
    \* ---- one call of an entry extractor
    e_site,                 \* the call site, which fixes the extractor
    e_pc,                   \* position in the extractor
    e_lines,                \* lines = text.split('\n') of the argument
    ei,                     \* i, the index into the lines (0-based)
    next_idx,               \* the look-ahead index
    entries,
    current_entry,          \* a dict; the empty dict stands for None as well
    current_lines,
    normalized,             \* the result of EducationNormalizer.normalize
    e_opened,               \* history: the lines (1-based) that started an entry
    \* ---- one call of _parse_projects
    p_pc,
    p_lines,                \* lines = text.split('\n') of the argument
    p_i,                    \* the index of the loop over the lines (0-based)
    projects,
    current_project,        \* a dict; the empty dict stands for None
    description_lines,
    p_opened,               \* history: the lines (1-based) that started a project
    \* ---- one call of a DateNormalizer method, or of calculate_duration
    today,                  \* date.today()
    dn_pc,
    dn_fn,                  \* the method called
    dn_args,                \* its arguments
    dn_parsed,              \* what dateparser.parse returned, per text it was given
    dn_result,
    \* ---- calls of one method of a field normalizer
    nm_pc,
    nm_fn,                  \* the method called
    nm_mapping,             \* the mapping file the method looks names up in
    nm_companies,           \* ExperienceNormalizer.company_mapping
    nm_calls,               \* the calls made so far: argument and result
    nm_fuzzy,               \* what process.extractOne returned, per text it was given
    \* ---- construction of a normalizer or of the pipeline
    ld_pc,
    ld_fn,                  \* the class constructed
    ld_files,               \* the configuration files: present, missing or malformed
    ld_loaded,              \* what each source was loaded as
    ld_raised,              \* the exception the constructor raised, or None
    \* ---- CVPipeline.build_resume at the end of process_cv
    br_pc,
    br_data,                \* normalized_data
    br_result,              \* the Resume returned, or the exception raised
    \* ---- one SkillNormalizer object and the calls made on it
    sn_pc,
    sn_loaded,              \* history: the ontology the constructor loaded
    sn_ontology,            \* self.ontology, in key order
    sn_skill_index,         \* self.skill_index
    sn_lower_index,         \* self.lower_index
    sn_calls,               \* history: the calls made so far
    \* ---- one PIIAnonymizer object and the calls made on it
    replacement_strategy,   \* self.replacement_strategy
    pii_cache,              \* self.pii_cache: anonymized text -> pii_map
    current_pii_map,        \* self.current_pii_map
    pii_pc,
    pii_text,               \* the argument of anonymize
    pii_anonymized,         \* what anonymize returned: the text and the map
    pii_restored,           \* what restore_original returned
    pii_runs,               \* history: the texts anonymized so far
    \* ---- one call of TextParser._structure_content
    tp_pc,
    tp_lines,               \* lines = raw_text.split('\n')
    tp_blocks,              \* the blocks returned
    \* ---- two documents processed through one CVPipeline object
    cc_self,                \* the fields of the shared object the steps read
    cc_built,               \* history: the object as __init__ left it
    cc_found,               \* what extractOne returns for each text
    cc_docs                 \* the local variables of each document's thread

detVars == <<d_pc, document, lines, i, sections, section_keys,
             current_section, current_content, bi, li, placed, activated>>
matchVars == <<m_pc, m_text, m_font, m_result, m_stage>>
objVars == <<section_rules, confidence_threshold, min_heading_size>>
entVars == <<e_site, e_pc, e_lines, ei, next_idx, entries, current_entry,
             current_lines, normalized, e_opened>>
projVars == <<p_pc, p_lines, p_i, projects, current_project, description_lines,
              p_opened>>
dateVars == <<today, dn_pc, dn_fn, dn_args, dn_parsed, dn_result>>
normVars == <<nm_pc, nm_fn, nm_mapping, nm_companies, nm_calls, nm_fuzzy>>
loadVars == <<ld_pc, ld_fn, ld_files, ld_loaded, ld_raised>>
buildVars == <<br_pc, br_data, br_result>>
skillVars == <<sn_pc, sn_loaded, sn_ontology, sn_skill_index, sn_lower_index, sn_calls>>
piiVars == <<replacement_strategy, pii_cache, current_pii_map, pii_pc, pii_text,
             pii_anonymized, pii_restored, pii_runs>>
textVars == <<tp_pc, tp_lines, tp_blocks>>
concVars == <<cc_self, cc_built, cc_found, cc_docs>>
extraVars == <<skillVars, piiVars, textVars, concVars>>
otherVars == <<dateVars, normVars, loadVars, buildVars, extraVars>>
vars == <<objVars, matchVars, detVars, entVars, projVars, otherVars>>

None == "None"
Blank == <<>>

\* ------------------------------------------------------------------ bounds
MaxWords == 2
MaxBody == 4
MaxBlocks == 2
MaxLines == 4

\* ------------------------------------------------------------ text helpers

\* str.lower() of one token
LowerTok(t) ==
    CASE t = "Education" -> "education"
      [] t = "EDUCATION" -> "education"
      [] t = "Experience" -> "experience"
      [] t = "EXPERIENCE" -> "experience"
      [] t = "Skills" -> "skills"
      [] t = "SKILLS" -> "skills"
      [] t = "Work" -> "work"
      [] t = "History" -> "history"
      [] t = "HISTORY" -> "history"
      [] t = "Academic" -> "academic"
      [] t = "Acme" -> "acme"
      [] t = "Python" -> "python"
      [] t = "Full" -> "full"
      [] t = "Bachelor" -> "bachelor"
      [] t = "Master" -> "master"
      [] t = "Science" -> "science"
      [] t = "MIT" -> "mit"
      [] t = "Jan" -> "jan"
      [] t = "Dec" -> "dec"
      [] t = "Present" -> "present"
      [] t = "Honours" -> "honours"
      [] t = "Thesis" -> "thesis"
      [] t = "Graduated" -> "graduated"
      [] t = "Software" -> "software"
      [] t = "Developer" -> "developer"
      [] t = "Lead" -> "lead"
      [] t = "Engineer" -> "engineer"
      [] t = "Gauteng" -> "gauteng"
      [] t = "Remote" -> "remote"
      [] t = "Built" -> "built"
      [] t = "Java" -> "java"
      [] t = "Daily" -> "daily"
      [] t = "Testing" -> "testing"
      [] t = "Parser" -> "parser"
      [] t = "Tracker" -> "tracker"
      [] t = "Scanner" -> "scanner"
      [] t = "Project" -> "project"
      [] t = "Notes" -> "notes"
      [] t = "Tool" -> "tool"
      [] t = "Tools" -> "tools"
      [] t = "Technologies" -> "technologies"
      [] t = "Git" -> "git"
      [] t = "Make" -> "make"
      [] t = "Fast" -> "fast"
      [] t = "Q" -> "q"
      [] t = "Feb" -> "feb"
      [] t = "DECEMBER" -> "december"
      [] t = "Until" -> "until"
      [] t = "TO" -> "to"
      [] t = "Random" -> "random"
      [] t = "In" -> "in"
      [] t = "Date" -> "date"
      [] t = "Google" -> "google"
      [] t = "GOOG" -> "goog"
      [] t = "Alphabet" -> "alphabet"
      [] t = "MSc" -> "msc"
      [] t = "Masters" -> "masters"
      [] t = "Degree" -> "degree"
      [] t = "SA" -> "sa"
      [] t = "Unknown" -> "unknown"
      [] t = "The" -> "the"
      [] t = "C" -> "c"
      [] OTHER -> t

\* tokens without a cased character
\* ("bullet" stands for the character U+2022, "endash" for U+2013)
Uncased == {":", "-", "bullet", "endash", ",", "&", ".", "(", ")", "|"}
\* tokens all of whose cased characters are upper-case
UpperToks == {"EDUCATION", "EXPERIENCE", "SKILLS", "HISTORY"}

\* str.lower()
Lower(s) == [k \in 1..Len(s) |-> LowerTok(s[k])]

\* str.isupper(): at least one cased character and no lower-case one
IsUpper(s) ==
    /\ \E k \in 1..Len(s) : s[k] \notin Uncased
    /\ \A k \in 1..Len(s) : s[k] \in Uncased \/ s[k] \in UpperToks

\* str.endswith(':')
EndsWithColon(s) == Len(s) > 0 /\ s[Len(s)] = ":"

\* str.rstrip(':')
RECURSIVE RStripColon(_)
RStripColon(s) ==
    IF EndsWithColon(s) THEN RStripColon(SubSeq(s, 1, Len(s) - 1)) ELSE s

\* `p in s` for strings, and re.search of a literal pattern
Contains(p, s) ==
    \E k \in 0..(Len(s) - Len(p)) : SubSeq(s, k + 1, k + Len(p)) = p

\* sequences of length at most n over S
SeqUpTo(S, n) == UNION {[1..k -> S] : k \in 0..n}

\* the first of the indexes at which a scan finds a match, 0 if there is none
FirstIndex(hits) ==
    IF hits = {} THEN 0 ELSE CHOOSE k \in hits : \A j \in hits : k <= j

\* -------------------------------------------------- SectionDetector.__init__

DefaultThreshold == 50
DefaultMinHeadingSize == 10

\* rule configurations: [sections: sequence of [name, patterns], settings]
NoSettings == [x \in {} |-> 0]
CfgEmpty == [sections |-> <<>>, settings |-> NoSettings]
CfgTest ==
    [sections |-> << [name |-> "education",
                      patterns |-> << <<"education">>, <<"academic">> >>],
                     [name |-> "experience",
                      patterns |-> << <<"experience">> >>] >>,
     settings |-> NoSettings]
CfgThreshold ==
    [sections |-> << [name |-> "skills",
                      patterns |-> << <<"skills">>, <<"technologies">> >>] >>,
     settings |-> [confidence_threshold |-> 70]]
CfgFraction ==
    [sections |-> << [name |-> "experience",
                      patterns |-> << <<"experience">>, <<"work">>, <<"history">> >>],
                     [name |-> "summary",
                      patterns |-> << <<"work">> >>] >>,
     settings |-> [confidence_threshold |-> 50, min_heading_size |-> 12]]
Configs == {CfgEmpty, CfgTest, CfgThreshold, CfgFraction}

\* dict.get(key, default) on the settings
GetSetting(settings, key, default) ==
    IF key \in DOMAIN settings THEN settings[key] ELSE default

SectionDetectorInit(rules) ==
    /\ section_rules = rules.sections
    /\ confidence_threshold =
           GetSetting(rules.settings, "confidence_threshold", DefaultThreshold)
    /\ min_heading_size =
           GetSetting(rules.settings, "min_heading_size", DefaultMinHeadingSize)

\* ------------------------------------------------- _match_section_heading

common_sections ==
    << [name |-> "experience",
        patterns |-> << <<"experience">>, <<"work", "experience">>,
                        <<"professional", "experience">>,
                        <<"employment", "history">> >>],
       [name |-> "education",
        patterns |-> << <<"education">>, <<"academic", "background">>,
                        <<"educational", "background">>,
                        <<"academic", "qualifications">> >>],
       [name |-> "skills",
        patterns |-> << <<"technical", "skills">>, <<"skills">>,
                        <<"core", "competencies">>,
                        <<"professional", "skills">> >>],
       [name |-> "projects",
        patterns |-> << <<"technical", "projects">>, <<"projects">>,
                        <<"project", "experience">>, <<"key", "projects">> >>],
       [name |-> "certifications",
        patterns |-> << <<"certifications">>, <<"certificates">>,
                        <<"professional", "certifications">> >>],
       [name |-> "summary",
        patterns |-> << <<"summary">>, <<"professional", "summary">>,
                        <<"profile">>, <<"objective">> >>] >>

\* every pattern of a table of sections
PatternsOf(table) ==
    UNION {{table[n].patterns[k] : k \in 1..Len(table[n].patterns)} :
              n \in 1..Len(table)}

\* the first section of a table one of whose patterns is among the matching
\* patterns, or None
FirstSection(table, matching) ==
    LET Hit(sec) == \E k \in 1..Len(sec.patterns) : sec.patterns[k] \in matching
        idx == FirstIndex({n \in 1..Len(table) : Hit(table[n])})
    IN IF idx = 0 THEN None ELSE table[idx].name

\* confidence_scores[section]: how many compiled patterns of it match
MatchCount(sec, text) ==
    Cardinality({k \in 1..Len(sec.patterns) :
                    Contains(Lower(sec.patterns[k]), Lower(text))})

\* max(confidence_scores.items(), key=count)[0]: the dict holds the sections
\* with a match in declaration order, and max keeps the first maximum
BestSectionIndex(rules, text) ==
    LET scored == {k \in 1..Len(rules) : MatchCount(rules[k], text) > 0}
    IN IF scored = {} THEN 0
       ELSE CHOOSE k \in scored :
               /\ \A j \in scored : MatchCount(rules[j], text) <= MatchCount(rules[k], text)
               /\ \A j \in scored : j < k => MatchCount(rules[j], text) < MatchCount(rules[k], text)

\* lines 187-201: the scoring stage
PatternScoring(rules, threshold, text) ==
    LET b == BestSectionIndex(rules, text)
    IN IF b = 0 THEN None
       ELSE IF MatchCount(rules[b], text) * 100 >= threshold * Len(rules[b].patterns)
            THEN rules[b].name
            ELSE None

\* lines 203-216: headings with a colon or in capitals
SpecialCase(rules, text) ==
    IF EndsWithColon(text) \/ IsUpper(text)
    THEN LET text_clean == Lower(RStripColon(text))
             In(table) == {p \in PatternsOf(table) : Contains(Lower(p), text_clean)}
             common == FirstSection(common_sections, In(common_sections))
         IN IF common # None THEN common ELSE FirstSection(rules, In(rules))
    ELSE None

MatchSectionHeading(rules, threshold, text, font_size) ==
    IF text = Blank THEN None
    ELSE LET Exact(table) == {p \in PatternsOf(table) : Lower(p) = Lower(text)}
             common == FirstSection(common_sections, Exact(common_sections))
             direct == FirstSection(rules, Exact(rules))
             scored == PatternScoring(rules, threshold, text)
         IN IF common # None THEN common
            ELSE IF direct # None THEN direct
            ELSE IF scored # None THEN scored
            ELSE SpecialCase(rules, text)

\* the return statement that ends the call
MatchStage(rules, threshold, text) ==
    LET Exact(table) == {p \in PatternsOf(table) : Lower(p) = Lower(text)}
    IN IF text = Blank THEN "empty"
       ELSE IF FirstSection(common_sections, Exact(common_sections)) # None THEN "common"
       ELSE IF FirstSection(rules, Exact(rules)) # None THEN "direct"
       ELSE IF PatternScoring(rules, threshold, text) # None THEN "scoring"
       ELSE IF SpecialCase(rules, text) # None THEN "special"
       ELSE "none"

\* the method on the constructed object
match_section_heading(text, font_size) ==
    MatchSectionHeading(section_rules, confidence_threshold, text, font_size)

\* ------------------------------------------------------ detect_sections

EmptyDict == [x \in {} |-> 0]

\* "\n".join(list): the text whose lines are the list's (the empty string,
\* i.e. one blank line, for an empty list)
Join(ls) == IF ls = <<>> THEN <<Blank>> ELSE ls

\* content += line + "\n" for a content that is empty or ends in "\n"
AppendLn(content, line) ==
    SubSeq(content, 1, Len(content) - 1) \o <<line, Blank>>

\* bool(text.strip()): some line of the text is not blank
NonBlankText(text) == \E k \in 1..Len(text) : text[k] # Blank

NewSection(position) == [content |-> <<Blank>>, position |-> position, blocks |-> <<>>]

\* sections[name] = value, keeping the dict's insertion order
DictSet(keys, name) ==
    IF \E k \in 1..Len(keys) : keys[k] = name THEN keys ELSE Append(keys, name)

ContactLines == 5
NoPosition == 0

\* lines 32-56: the first five lines become the contact section
DetectStart ==
    /\ d_pc = "start"
    /\ LET raw == document.raw_text
           head == SubSeq(raw, 1, IF Len(raw) < ContactLines THEN Len(raw) ELSE ContactLines)
           contact_lines == SelectSeq(head, LAMBDA l : l # Blank)
       IN /\ lines' = raw
          /\ placed' = {[src |-> "raw", at |-> k, sec |-> "contact", line |-> head[k]] :
                            k \in {j \in 1..Len(head) : head[j] # Blank}}
          /\ IF contact_lines # <<>>
             THEN /\ sections' = ("contact" :> [content |-> Join(contact_lines),
                                                position |-> NoPosition,
                                                blocks |-> <<>>])
                  /\ section_keys' = <<"contact">>
             ELSE /\ sections' = EmptyDict
                  /\ section_keys' = <<>>
    /\ i' = ContactLines
    /\ current_section' = None
    /\ current_content' = <<>>
    /\ d_pc' = "raw"
    /\ UNCHANGED <<document, bi, li, activated, objVars, otherVars, matchVars, entVars, projVars>>

\* lines 68-70 and 97-98: save the open section's content
Flushed ==
    IF current_section # None /\ current_content # <<>>
    THEN [sections EXCEPT ![current_section].content = Join(current_content)]
    ELSE sections

\* lines 57-94: one iteration of the loop over the remaining lines
RawLine ==
    /\ d_pc = "raw"
    /\ i < Len(lines)
    /\ LET line == lines[i + 1]
           section_match == match_section_heading(line, min_heading_size)
           here(sec) == [src |-> "raw", at |-> i + 1, sec |-> sec, line |-> line]
       IN \/ /\ line = Blank
             /\ UNCHANGED <<sections, section_keys, current_section, current_content,
                            placed, activated>>
          \/ /\ line # Blank
             /\ section_match # None
             /\ sections' = (section_match :> NewSection(NoPosition)) @@ Flushed
             /\ section_keys' = DictSet(section_keys, section_match)
             /\ current_section' = section_match
             /\ current_content' = IF section_match = "skills" THEN <<line>> ELSE <<>>
             /\ placed' = IF section_match = "skills"
                          THEN placed \cup {here("skills")} ELSE placed
             /\ activated' = activated \cup {i + 1}
          \/ /\ line # Blank
             /\ section_match = None
             /\ current_section # None
             /\ current_content' = Append(current_content, line)
             /\ placed' = placed \cup {here(current_section)}
             /\ UNCHANGED <<sections, section_keys, current_section, activated>>
          \/ /\ line # Blank
             /\ section_match = None
             /\ current_section = None
             /\ UNCHANGED <<sections, section_keys, current_section, current_content,
                            placed, activated>>
    /\ i' = i + 1
    /\ UNCHANGED <<d_pc, document, lines, bi, li, objVars, otherVars, matchVars, entVars, projVars>>

\* lines 96-103: save the last section; fall back to the content blocks when
\* no section holds any text
RawEnd ==
    /\ d_pc = "raw"
    /\ i >= Len(lines)
    /\ LET saved == Flushed
           none == \/ section_keys = <<>>
                   \/ \A s \in DOMAIN saved : ~NonBlankText(saved[s].content)
       IN \/ /\ none
             /\ sections' = EmptyDict
             /\ section_keys' = <<>>
             /\ d_pc' = "blocks"
          \/ /\ ~none
             /\ sections' = saved
             /\ UNCHANGED section_keys
             /\ d_pc' = "final"
    /\ bi' = 0
    /\ li' = 0
    /\ UNCHANGED <<document, lines, i, current_section, current_content,
                   placed, activated, objVars, otherVars, matchVars, entVars, projVars>>

\* lines 107-113: take the next block, skipping a block without text
BlockNext ==
    /\ d_pc = "blocks"
    /\ bi < Len(document.content)
    /\ LET block == document.content[bi + 1]
       IN \/ /\ ~NonBlankText(block.text)
          \/ /\ NonBlankText(block.text)
             /\ li >= Len(block.text)
    /\ bi' = bi + 1
    /\ li' = 0
    /\ UNCHANGED <<d_pc, document, lines, i, sections, section_keys,
                   current_section, current_content, placed, activated,
                   objVars, otherVars, matchVars, entVars, projVars>>

\* lines 114-138: one line of the current block
BlockLine ==
    /\ d_pc = "blocks"
    /\ bi < Len(document.content)
    /\ LET block == document.content[bi + 1]
       IN /\ NonBlankText(block.text)
          /\ li < Len(block.text)
          /\ LET line == block.text[li + 1]
                 section_match == match_section_heading(line, min_heading_size)
                 opened == IF section_match \in DOMAIN sections THEN sections
                           ELSE (section_match :> NewSection(block.position)) @@ sections
                 here(sec) == [src |-> "block", at |-> <<bi + 1, li + 1>>,
                               sec |-> sec, line |-> line]
             IN \/ /\ line = Blank
                   /\ UNCHANGED <<d_pc, sections, section_keys, current_section, placed>>
                \/ /\ line # Blank
                   /\ section_match # None
                   /\ current_section' = section_match
                   /\ section_keys' = DictSet(section_keys, section_match)
                   /\ sections' =
                        IF section_match = "skills"
                        THEN [opened EXCEPT !["skills"].content = AppendLn(@, line)]
                        ELSE opened
                   /\ placed' = IF section_match = "skills"
                                THEN placed \cup {here("skills")} ELSE placed
                   /\ UNCHANGED d_pc
                \/ /\ line # Blank
                   /\ section_match = None
                   /\ current_section = None
                   /\ UNCHANGED <<d_pc, sections, section_keys, current_section, placed>>
                \/ /\ line # Blank
                   /\ section_match = None
                   /\ current_section # None
                   /\ current_section \in DOMAIN sections
                   /\ sections' =
                        [sections EXCEPT
                           ![current_section].content = AppendLn(@, line),
                           ![current_section].blocks =
                               IF \E k \in 1..Len(@) : @[k] = block
                               THEN @ ELSE Append(@, block)]
                   /\ placed' = placed \cup {here(current_section)}
                   /\ UNCHANGED <<d_pc, section_keys, current_section>>
                \/ \* sections was reset at line 103 but current_section still
                   \* names a heading of the raw text: sections[current_section]
                   \* raises KeyError
                   /\ line # Blank
                   /\ section_match = None
                   /\ current_section # None
                   /\ current_section \notin DOMAIN sections
                   /\ d_pc' = "KeyError"
                   /\ UNCHANGED <<sections, section_keys, current_section, placed>>
    /\ li' = li + 1
    /\ UNCHANGED <<document, lines, i, current_content, bi, activated, objVars, otherVars, matchVars, entVars, projVars>>

BlocksEnd ==
    /\ d_pc = "blocks"
    /\ bi >= Len(document.content)
    /\ d_pc' = "final"
    /\ UNCHANGED <<document, lines, i, sections, section_keys, current_section,
                   current_content, bi, li, placed, activated, objVars, otherVars, matchVars, entVars, projVars>>

\* lines 140-154: the default section, and the return
DetectReturn ==
    /\ d_pc = "final"
    /\ IF section_keys = <<>>
       THEN /\ sections' = ("content" :> [content |-> document.raw_text,
                                          position |-> NoPosition,
                                          blocks |-> document.content])
            /\ section_keys' = <<"content">>
       ELSE UNCHANGED <<sections, section_keys>>
    /\ d_pc' = "done"
    /\ UNCHANGED <<document, lines, i, current_section, current_content,
                   bi, li, placed, activated, objVars, otherVars, matchVars, entVars, projVars>>

\* ------------------------------------------ entry extraction: text helpers

Months == {"January", "February", "March", "April", "May", "June", "July",
           "August", "September", "October", "November", "December",
           "Jan", "Feb", "Mar", "Apr", "Jun", "Jul", "Aug", "Sep", "Oct",
           "Nov", "Dec"}
\* the tokens \d{4} matches
Years == {"2018", "2019", "2020", "2021", "2022", "2023"}
Dashes == {"-", "endash"}
BulletMarks == {"bullet", "-"}

AnyIn(patterns, line) == \E p \in patterns : Contains(p, line)

\* line.startswith(a bullet or '-')
StartsWithBullet(line) == Len(line) > 0 /\ line[1] \in BulletMarks

\* line.lstrip of bullets, '-' and blanks, then strip()
RECURSIVE LStripBullets(_)
LStripBullets(line) ==
    IF StartsWithBullet(line) THEN LStripBullets(Tail(line)) ELSE line

\* the pieces of a sequence between the elements that are separators
RECURSIVE SplitOn(_, _)
SplitOn(s, seps) ==
    IF \E k \in 1..Len(s) : s[k] \in seps
    THEN LET k == CHOOSE j \in 1..Len(s) :
                     s[j] \in seps /\ \A h \in 1..(j - 1) : s[h] \notin seps
         IN <<SubSeq(s, 1, k - 1)>> \o SplitOn(SubSeq(s, k + 1, Len(s)), seps)
    ELSE <<s>>

\* date_pattern of main.py matched at token k: the index of the last token of
\* the match, 0 if there is none.  MONTH YYYY dash (Present|MONTH) YYYY is
\* tried first, then MONTH YYYY dash Present.
DateEndAt(line, k) ==
    IF /\ k + 2 <= Len(line)
       /\ line[k] \in Months /\ line[k + 1] \in Years /\ line[k + 2] \in Dashes
    THEN IF /\ k + 4 <= Len(line)
            /\ line[k + 3] \in Months \cup {"Present"}
            /\ line[k + 4] \in Years
         THEN k + 4
         ELSE IF k + 3 <= Len(line) /\ line[k + 3] = "Present" THEN k + 3
         ELSE 0
    ELSE 0

\* re.search(date_pattern, line): [found, start, end], the two sides of the
\* dash in the leftmost match
DateSearch(line) ==
    LET hits == {k \in 1..Len(line) : DateEndAt(line, k) > 0}
    IN IF hits = {} THEN [found |-> FALSE, start |-> Blank, end |-> Blank]
       ELSE LET k == CHOOSE j \in hits : \A h \in hits : j <= h
            IN [found |-> TRUE,
                start |-> SubSeq(line, k, k + 1),
                end |-> SubSeq(line, k + 3, DateEndAt(line, k))]

DegreeKeywords == {<<"Bachelor", "of">>, <<"Master", "of">>,
                   <<"National", "Certificate">>, <<"Senior", "Certificate">>}
JobTitleKeywords == {<<"Developer">>, <<"Engineer">>, <<"Mentor">>, <<"Consultant">>,
                     <<"Analyst">>, <<"Manager">>, <<"Architect">>, <<"Lead">>}
LocationKeywords == {<<"Gauteng">>, <<"Western", "Cape">>, <<"Remote">>}

LookAhead == 3

NoEntry == EmptyDict
HasEntry(e) == DOMAIN e # {}

\* --------------------------------------------- _parse_section_to_entries

NewEducationEntry(line) ==
    [institution |-> Blank, degree |-> line, field_of_study |-> Blank,
     start_date |-> Blank, end_date |-> Blank, description |-> <<Blank>>,
     achievements |-> <<>>]

\* lines 330-332, 387-389 (and 562-564, 636-638): the entry is kept only if
\* it has description lines
Saved ==
    IF HasEntry(current_entry) /\ current_lines # <<>>
    THEN Append(entries, [current_entry EXCEPT !.description = Join(current_lines)])
    ELSE entries

\* a blank line that closes the entry, as the extractors of EntityExtractor do
SkipBlankClosingEntry ==
    /\ ei' = ei + 1
    /\ entries' = Saved
    /\ current_entry' = NoEntry
    /\ current_lines' = <<>>
    /\ UNCHANGED <<e_pc, next_idx, e_opened>>

\* lines 318-320 (and 550-552): a blank line is skipped
SkipBlank ==
    /\ ei' = ei + 1
    /\ UNCHANGED <<e_pc, next_idx, entries, current_entry, current_lines, e_opened>>

PSESites == {"normalize_data.education", "normalize_data.experience"}

\* lines 316-345 and 375-384: one iteration of the outer loop
PSEScan ==
    /\ e_site \in PSESites
    /\ e_pc = "scan"
    /\ ei < Len(e_lines)
    /\ LET line == e_lines[ei + 1]
       IN \/ /\ line = Blank
             /\ SkipBlank
          \/ /\ line # Blank
             /\ AnyIn(DegreeKeywords, line)
             /\ entries' = Saved
             /\ current_entry' = NewEducationEntry(line)
             /\ current_lines' = <<>>
             /\ next_idx' = ei + 1
             /\ e_pc' = "look"
             /\ e_opened' = e_opened \cup {ei + 1}
             /\ UNCHANGED ei
          \/ /\ line # Blank
             /\ ~AnyIn(DegreeKeywords, line)
             /\ HasEntry(current_entry)
             /\ IF StartsWithBullet(line)
                THEN /\ current_entry' =
                          [current_entry EXCEPT !.achievements = Append(@, LStripBullets(line))]
                     /\ UNCHANGED current_lines
                ELSE /\ current_lines' = Append(current_lines, line)
                     /\ UNCHANGED current_entry
             /\ ei' = ei + 1
             /\ UNCHANGED <<e_pc, next_idx, entries, e_opened>>
          \/ /\ line # Blank
             /\ ~AnyIn(DegreeKeywords, line)
             /\ ~HasEntry(current_entry)
             /\ ei' = ei + 1
             /\ UNCHANGED <<e_pc, next_idx, entries, current_entry, current_lines, e_opened>>
    /\ UNCHANGED <<e_site, e_lines, normalized, objVars, otherVars, matchVars, detVars, projVars>>

\* lines 346-373: one iteration of the look-ahead loop, and its exit
PSELook ==
    /\ e_site \in PSESites
    /\ e_pc = "look"
    /\ \/ /\ next_idx < Len(e_lines) /\ next_idx <= ei + LookAhead
          /\ LET next_line == e_lines[next_idx + 1]
                 date_match == DateSearch(next_line)
             IN \/ /\ next_line = Blank
                   /\ UNCHANGED current_entry
                \/ /\ next_line # Blank
                   /\ date_match.found
                   /\ current_entry' = [current_entry EXCEPT
                                          !.start_date = date_match.start,
                                          !.end_date = date_match.end]
                \/ /\ next_line # Blank
                   /\ ~date_match.found
                   /\ current_entry' =
                        IF current_entry.institution = Blank
                        THEN [current_entry EXCEPT !.institution = next_line]
                        ELSE current_entry
          /\ next_idx' = next_idx + 1
          /\ UNCHANGED <<e_pc, ei>>
       \/ /\ ~(next_idx < Len(e_lines) /\ next_idx <= ei + LookAhead)
          /\ ei' = next_idx
          /\ e_pc' = "scan"
          /\ UNCHANGED <<next_idx, current_entry>>
    /\ UNCHANGED <<e_site, e_lines, entries, current_lines, normalized, e_opened,
                   objVars, otherVars, matchVars, detVars, projVars>>

\* lines 386-391: the final entry, and the return
PSEFinish ==
    /\ e_site \in PSESites
    /\ e_pc = "scan"
    /\ ei >= Len(e_lines)
    /\ entries' = Saved
    /\ e_pc' = "parsed"
    /\ UNCHANGED <<e_site, e_lines, ei, next_idx, current_entry, current_lines,
                   normalized, e_opened, objVars, otherVars, matchVars, detVars, projVars>>

\* ----------------------------------------------------- _parse_experience

NewExperienceEntry(line) ==
    [position |-> line, company |-> Blank, location |-> Blank,
     start_date |-> Blank, end_date |-> Blank, description |-> <<Blank>>,
     technologies |-> <<>>]

TechKeywords == <<"using", "with", "in", "through">>

\* line.split(" kw ")[1] when " kw " occurs in the line: the tokens after the
\* first inner occurrence of kw up to its next inner occurrence
InnerAt(line, kw, k) == 1 < k /\ k < Len(line) /\ line[k] = kw
HasInner(line, kw) == \E k \in 1..Len(line) : InnerAt(line, kw, k)
SecondPiece(line, kw) ==
    LET first == CHOOSE k \in 1..Len(line) :
                    InnerAt(line, kw, k) /\ \A h \in 1..(k - 1) : ~InnerAt(line, kw, h)
        rest == SubSeq(line, first + 1, Len(line))
        \* an occurrence right after the first shares its blank and is not one
        later == {k \in 2..Len(rest) : k < Len(rest) /\ rest[k] = kw}
    IN IF later = {} THEN rest
       ELSE SubSeq(rest, 1, (CHOOSE k \in later : \A h \in later : k <= h) - 1)

\* lines 620-625 for one keyword: the technologies a bullet names
TechsFor(line, kw) ==
    IF HasInner(line, kw)
    THEN SplitOn(SplitOn(SecondPiece(line, kw), {"."})[1], {",", "&"})
    ELSE <<>>

ExtractTechs(line) ==
    TechsFor(line, TechKeywords[1]) \o TechsFor(line, TechKeywords[2])
    \o TechsFor(line, TechKeywords[3]) \o TechsFor(line, TechKeywords[4])

\* lines 548-576 and 615-633: one iteration of the outer loop
PEScan ==
    /\ e_site = "parse.experience"
    /\ e_pc = "scan"
    /\ ei < Len(e_lines)
    /\ LET line == e_lines[ei + 1]
       IN \/ /\ line = Blank
             /\ SkipBlank
          \/ /\ line # Blank
             /\ AnyIn(JobTitleKeywords, line)
             /\ entries' = Saved
             /\ current_entry' = NewExperienceEntry(line)
             /\ current_lines' = <<>>
             /\ next_idx' = ei + 1
             /\ e_pc' = "look"
             /\ e_opened' = e_opened \cup {ei + 1}
             /\ UNCHANGED ei
          \/ /\ line # Blank
             /\ ~AnyIn(JobTitleKeywords, line)
             /\ HasEntry(current_entry)
             /\ IF StartsWithBullet(line)
                THEN /\ current_entry' =
                          [current_entry EXCEPT
                             !.technologies = @ \o ExtractTechs(LStripBullets(line))]
                     /\ current_lines' = Append(current_lines, LStripBullets(line))
                ELSE /\ current_lines' = Append(current_lines, line)
                     /\ UNCHANGED current_entry
             /\ ei' = ei + 1
             /\ UNCHANGED <<e_pc, next_idx, entries, e_opened>>
          \/ /\ line # Blank
             /\ ~AnyIn(JobTitleKeywords, line)
             /\ ~HasEntry(current_entry)
             /\ ei' = ei + 1
             /\ UNCHANGED <<e_pc, next_idx, entries, current_entry, current_lines, e_opened>>
    /\ UNCHANGED <<e_site, e_lines, normalized, objVars, otherVars, matchVars, detVars, projVars>>

\* lines 578-613: one iteration of the look-ahead loop, and its exit
PELook ==
    /\ e_site = "parse.experience"
    /\ e_pc = "look"
    /\ \/ /\ next_idx < Len(e_lines) /\ next_idx <= ei + LookAhead
          /\ LET next_line == e_lines[next_idx + 1]
                 date_match == DateSearch(next_line)
             IN \/ /\ next_line = Blank
                   /\ UNCHANGED current_entry
                \/ /\ next_line # Blank
                   /\ date_match.found
                   /\ current_entry' = [current_entry EXCEPT
                                          !.start_date = date_match.start,
                                          !.end_date = date_match.end]
                \/ /\ next_line # Blank
                   /\ ~date_match.found
                   /\ AnyIn(LocationKeywords, next_line)
                   /\ current_entry' = [current_entry EXCEPT !.location = next_line]
                \/ /\ next_line # Blank
                   /\ ~date_match.found
                   /\ ~AnyIn(LocationKeywords, next_line)
                   /\ current_entry' =
                        IF current_entry.company = Blank
                           /\ ~AnyIn(JobTitleKeywords, next_line)
                        THEN [current_entry EXCEPT !.company = next_line]
                        ELSE current_entry
          /\ next_idx' = next_idx + 1
          /\ UNCHANGED <<e_pc, ei>>
       \/ /\ ~(next_idx < Len(e_lines) /\ next_idx <= ei + LookAhead)
          /\ ei' = next_idx
          /\ e_pc' = "scan"
          /\ UNCHANGED <<next_idx, current_entry>>
    /\ UNCHANGED <<e_site, e_lines, entries, current_lines, normalized, e_opened,
                   objVars, otherVars, matchVars, detVars, projVars>>

\* lines 635-640: the final entry, and the return
PEFinish ==
    /\ e_site = "parse.experience"
    /\ e_pc = "scan"
    /\ ei >= Len(e_lines)
    /\ entries' = Saved
    /\ e_pc' = "done"
    /\ UNCHANGED <<e_site, e_lines, ei, next_idx, current_entry, current_lines,
                   normalized, e_opened, objVars, otherVars, matchVars, detVars, projVars>>

\* --------------------- EntityExtractor._extract_education / _extract_experience

\* Python dict access on a dict held as a function
Get(d, key, default) == IF key \in DOMAIN d THEN d[key] ELSE default
Put(d, key, value) == [x \in DOMAIN d \cup {key} |-> IF x = key THEN value ELSE d[x]]

\* punctuation tokens; every other token is a run of \w characters
Punct == {":", "-", "bullet", "endash", ",", "&", ".", "(", ")", "|"}
IsWord(t) == t \notin Punct

\* the pattern (\w+\s+\d{4})\s*-\s*(\w+\s+\d{4}|\bpresent\b), re.IGNORECASE,
\* matched at token k: the index of the last token of the match, 0 if none
EEDateEndAt(line, k) ==
    IF /\ k + 3 <= Len(line)
       /\ IsWord(line[k]) /\ line[k + 1] \in Years /\ line[k + 2] = "-"
    THEN IF k + 4 <= Len(line) /\ IsWord(line[k + 3]) /\ line[k + 4] \in Years
         THEN k + 4
         ELSE IF LowerTok(line[k + 3]) = "present" THEN k + 3
         ELSE 0
    ELSE 0

EEDateSearch(line) ==
    LET hits == {k \in 1..Len(line) : EEDateEndAt(line, k) > 0}
    IN IF hits = {} THEN [found |-> FALSE, start |-> Blank, end |-> Blank]
       ELSE LET k == CHOOSE j \in hits : \A h \in hits : j <= h
            IN [found |-> TRUE,
                start |-> SubSeq(line, k, k + 1),
                end |-> SubSeq(line, k + 3, EEDateEndAt(line, k))]

\* the tokens at whose start (Bachelor|Master|PhD|B\.?S\.?|M\.?S\.?|M\.?B\.?A\.?|
\* Ph\.?D\.?) matches, lower-cased; no other token of the texts of this model
\* contains a match
DegreeWords == {"bachelor", "master", "phd", "bs", "ms", "mba", "bsc", "msc"}
IsDegreeWord(t) == LowerTok(t) \in DegreeWords

\* degree_match.group(0): from the first match to the end of the line
DegreeText(line) ==
    LET k == FirstIndex({j \in 1..Len(line) : IsDegreeWord(line[j])})
    IN IF k = 0 THEN Blank ELSE SubSeq(line, k, Len(line))

\* (?:in|of)\s+([^,\n]+) in degree_text: [found, field]
FieldSearch(degree_text) ==
    LET hits == {k \in 1..(Len(degree_text) - 1) :
                    /\ LowerTok(degree_text[k]) \in {"in", "of"}
                    /\ degree_text[k + 1] # ","}
    IN IF hits = {} THEN [found |-> FALSE, field |-> Blank]
       ELSE LET k == CHOOSE j \in hits : \A h \in hits : j <= h
            IN [found |-> TRUE,
                field |-> SplitOn(SubSeq(degree_text, k + 1, Len(degree_text)), {","})[1]]

EESites == {"extract_resume.education", "extract_resume.experience"}

\* lines 259-260, 338-339: nothing to extract from a text of blanks
EEEmpty ==
    /\ e_site \in EESites
    /\ e_pc = "scan"
    /\ ei = 0
    /\ ~NonBlankText(e_lines)
    /\ e_pc' = "done"
    /\ UNCHANGED <<e_site, e_lines, ei, next_idx, entries, current_entry, current_lines,
                   normalized, e_opened, objVars, otherVars, matchVars, detVars, projVars>>

\* lines 266-317: one iteration of the loop of _extract_education.  entries
\* holds, for each Education(...) built, the current_entry it is built from.
EduLine ==
    /\ e_site = "extract_resume.education"
    /\ e_pc = "scan"
    /\ NonBlankText(e_lines)
    /\ ei < Len(e_lines)
    /\ LET line == e_lines[ei + 1]
           date_match == EEDateSearch(line)
           degree_text == DegreeText(line)
           field_match == FieldSearch(degree_text)
       IN \/ /\ line = Blank
             /\ entries' = IF HasEntry(current_entry)
                           THEN Append(entries, current_entry) ELSE entries
             /\ current_entry' = EmptyDict
             /\ UNCHANGED e_opened
          \/ /\ line # Blank
             /\ date_match.found
             /\ current_entry' = Put(Put(current_entry, "start_date", date_match.start),
                                     "end_date", date_match.end)
             /\ e_opened' = IF HasEntry(current_entry) THEN e_opened
                            ELSE e_opened \cup {ei + 1}
             /\ UNCHANGED entries
          \/ /\ line # Blank
             /\ ~date_match.found
             /\ degree_text # Blank
             /\ current_entry' =
                  IF field_match.found
                  THEN Put(Put(current_entry, "degree", degree_text),
                           "field", field_match.field)
                  ELSE Put(current_entry, "degree", degree_text)
             /\ e_opened' = IF HasEntry(current_entry) THEN e_opened
                            ELSE e_opened \cup {ei + 1}
             /\ UNCHANGED entries
          \/ /\ line # Blank
             /\ ~date_match.found
             /\ degree_text = Blank
             /\ current_entry' =
                  IF Get(current_entry, "institution", Blank) = Blank
                  THEN Put(current_entry, "institution", line)
                  ELSE IF StartsWithBullet(line)
                  THEN Put(current_entry, "achievements",
                           Append(Get(current_entry, "achievements", <<>>),
                                  LStripBullets(line)))
                  ELSE IF "description" \notin DOMAIN current_entry
                  THEN Put(current_entry, "description", line)
                  ELSE Put(current_entry, "description",
                           current_entry["description"] \o line)
             /\ e_opened' = IF HasEntry(current_entry) THEN e_opened
                            ELSE e_opened \cup {ei + 1}
             /\ UNCHANGED entries
    /\ ei' = ei + 1
    /\ UNCHANGED <<e_site, e_pc, e_lines, next_idx, current_lines, normalized,
                   objVars, otherVars, matchVars, detVars, projVars>>

\* the tokens [A-Z][A-Za-z0-9.#+]+ matches: the capitalised words
Capitalised(t) == IsWord(t) /\ LowerTok(t) # t

\* re.findall(r'\b[A-Z][A-Za-z0-9.#+]+(?:\s+[A-Z][A-Za-z0-9.#+]+)*\b', line):
\* the maximal runs of capitalised words; a full stop inside a run belongs to
\* the word before it, one at the end of a run is given back for the last \b
RECURSIVE CapRuns(_, _)
CapRuns(line, run) ==
    IF line = <<>> THEN (IF run = <<>> THEN <<>> ELSE <<run>>)
    ELSE IF Capitalised(Head(line)) THEN CapRuns(Tail(line), Append(run, Head(line)))
    ELSE IF /\ Head(line) = "." /\ run # <<>>
            /\ Len(line) >= 2 /\ Capitalised(line[2])
    THEN CapRuns(Tail(line), Append(run, "."))
    ELSE (IF run = <<>> THEN <<>> ELSE <<run>>) \o CapRuns(Tail(line), <<>>)

\* lines 345-390: one iteration of the loop of _extract_experience
ExpLine ==
    /\ e_site = "extract_resume.experience"
    /\ e_pc = "scan"
    /\ NonBlankText(e_lines)
    /\ ei < Len(e_lines)
    /\ LET line == e_lines[ei + 1]
           date_match == EEDateSearch(line)
           tech_matches == CapRuns(line, <<>>)
           with_techs == IF tech_matches = <<>> THEN current_entry
                         ELSE Put(current_entry, "technologies",
                                  Get(current_entry, "technologies", <<>>) \o tech_matches)
       IN \/ /\ line = Blank
             /\ entries' = IF HasEntry(current_entry)
                           THEN Append(entries, current_entry) ELSE entries
             /\ current_entry' = EmptyDict
             /\ UNCHANGED e_opened
          \/ /\ line # Blank
             /\ date_match.found
             /\ current_entry' = Put(Put(current_entry, "start_date", date_match.start),
                                     "end_date", date_match.end)
             /\ e_opened' = IF HasEntry(current_entry) THEN e_opened
                            ELSE e_opened \cup {ei + 1}
             /\ UNCHANGED entries
          \/ /\ line # Blank
             /\ ~date_match.found
             /\ current_entry' =
                  IF Get(current_entry, "position", Blank) = Blank
                  THEN Put(current_entry, "position", line)
                  ELSE IF Get(current_entry, "company", Blank) = Blank
                  THEN Put(current_entry, "company", line)
                  ELSE IF "description" \notin DOMAIN with_techs
                  THEN Put(with_techs, "description", line)
                  ELSE Put(with_techs, "description", with_techs["description"] \o line)
             /\ e_opened' = IF HasEntry(current_entry) THEN e_opened
                            ELSE e_opened \cup {ei + 1}
             /\ UNCHANGED entries
    /\ ei' = ei + 1
    /\ UNCHANGED <<e_site, e_pc, e_lines, next_idx, current_lines, normalized,
                   objVars, otherVars, matchVars, detVars, projVars>>

\* lines 319-334, 392-406: the last entry, and the return
EEFinish ==
    /\ e_site \in EESites
    /\ e_pc = "scan"
    /\ NonBlankText(e_lines)
    /\ ei >= Len(e_lines)
    /\ entries' = IF HasEntry(current_entry)
                  THEN Append(entries, current_entry) ELSE entries
    /\ e_pc' = "done"
    /\ UNCHANGED <<e_site, e_lines, ei, next_idx, current_entry, current_lines,
                   normalized, e_opened, objVars, otherVars, matchVars, detVars, projVars>>

\* ------------------------------------------- EducationNormalizer.normalize

MonthNumber(m) ==
    CASE m \in {"January", "Jan"} -> "01"
      [] m \in {"February", "Feb"} -> "02"
      [] m \in {"March", "Mar"} -> "03"
      [] m \in {"April", "Apr"} -> "04"
      [] m = "May" -> "05"
      [] m \in {"June", "Jun"} -> "06"
      [] m \in {"July", "Jul"} -> "07"
      [] m \in {"August", "Aug"} -> "08"
      [] m \in {"September", "Sep"} -> "09"
      [] m \in {"October", "Oct"} -> "10"
      [] m \in {"November", "Nov"} -> "11"
      [] m \in {"December", "Dec"} -> "12"

\* parse_date of normalize_dates, then `or ""`: "%B %Y", "%b %Y" and "%Y"
\* give YYYY-MM-01; a string no format matches is returned as it is
ParseDate(date_str) ==
    IF Len(date_str) = 2 /\ date_str[1] \in Months /\ date_str[2] \in Years
    THEN <<date_str[2], "-", MonthNumber(date_str[1]), "-", "01">>
    ELSE IF Len(date_str) = 1 /\ date_str[1] \in Years
    THEN <<date_str[1], "-", "01", "-", "01">>
    ELSE date_str

AchievementMarkers == {<<"achievements", ":">>, <<"accomplishments", ":">>,
                       <<"awards", ":">>, <<"honors", ":">>,
                       <<"academic", "achievements">>, <<"notable", "achievements">>}
AchievementIndicators ==
    {<<"awarded">>, <<"received">>, <<"achieved">>, <<"earned">>, <<"graduated">>,
     <<"dean's", "list">>, <<"honor", "roll">>, <<"distinction">>, <<"cum", "laude">>,
     <<"gpa">>, <<"grade">>, <<"score">>, <<"rank">>, <<"medal">>, <<"prize">>,
     <<"scholarship">>, <<"fellowship">>, <<"grant">>}
DefaultAchievements ==
    << <<"Successfully", "completed", "coursework", "and", "requirements">> >>

\* re.match(r'^\d+\.', line)
Digits == {"1", "2", "3"}
IsNumbered(line) == Len(line) >= 2 /\ line[1] \in Digits /\ line[2] = "."

\* lines 242-266: the loop over the description lines;
\* st = [achievements, achievement_lines, in_achievements]
RECURSIVE ScanDescription(_, _)
ScanDescription(remaining, st) ==
    IF remaining = <<>> THEN st
    ELSE LET line == Head(remaining)
             rest == Tail(remaining)
             achievement == LStripBullets(line)
         IN IF line = Blank THEN ScanDescription(rest, st)
            ELSE IF AnyIn(AchievementMarkers, Lower(line))
            THEN ScanDescription(rest, [st EXCEPT !.in_achievements = TRUE])
            ELSE IF (StartsWithBullet(line) \/ IsNumbered(line)) /\ achievement # Blank
            THEN ScanDescription(rest,
                    [st EXCEPT !.achievements = Append(@, achievement)])
            ELSE IF st.in_achievements
            THEN ScanDescription(rest, [st EXCEPT !.achievements = Append(@, line)])
            ELSE ScanDescription(rest, [st EXCEPT !.achievement_lines = Append(@, line)])

\* lines 224-292: one entry
NormalizeEntry(entry) ==
    LET st == ScanDescription(Get(entry, "description", <<Blank>>),
                              [achievements |-> <<>>, achievement_lines |-> <<>>,
                               in_achievements |-> FALSE])
        indicated == SelectSeq(st.achievement_lines,
                               LAMBDA l : AnyIn(AchievementIndicators, Lower(l)))
        achievements == IF st.achievements # <<>> THEN st.achievements
                        ELSE IF indicated # <<>> THEN indicated
                        ELSE DefaultAchievements
    IN [institution |-> Get(entry, "institution", Blank),
        degree |-> Get(entry, "degree", Blank),
        field_of_study |-> Get(entry, "field_of_study", Blank),
        start_date |-> ParseDate(Get(entry, "start_date", Blank)),
        end_date |-> ParseDate(Get(entry, "end_date", Blank)),
        description |-> Join(st.achievement_lines),
        achievements |-> achievements]

\* EducationNormalizer.normalize
Normalize(es) == [k \in 1..Len(es) |-> NormalizeEntry(es[k])]

\* normalize_data, lines 153-155: the education entries are normalized
NormalizeEducation ==
    /\ e_site = "normalize_data.education"
    /\ e_pc = "parsed"
    /\ normalized' = Normalize(entries)
    /\ e_pc' = "done"
    /\ UNCHANGED <<e_site, e_lines, ei, next_idx, entries, current_entry, current_lines,
                   e_opened, objVars, otherVars, matchVars, detVars, projVars>>

\* ----------------------------------------------- the texts of the model

DegreeLine == <<"Bachelor", "of", "Science">>
DateLine == <<"Jan", "2018", "-", "Present">>
JobLine == <<"Software", "Developer">>
EduLines == {Blank, DegreeLine, <<"MIT">>, DateLine, <<"bullet", "Honours">>}
ExpLines == {Blank, JobLine, <<"Acme">>, DateLine,
             <<"bullet", "Built", "using", "Python">>}
EduHeader == <<DegreeLine, <<"MIT">>, DateLine>>
ExpHeader == <<JobLine, <<"Acme">>, <<"Gauteng">>>>

\* two complete entries each
EduSample ==
    <<DegreeLine, <<"MIT">>, <<"Jan", "2018", "-", "Dec", "2021">>, <<"Graduated">>,
      <<"bullet", "Honours">>, <<"Thesis">>,
      <<"Master", "of", "Science">>, <<"MIT">>, DateLine, Blank, <<"Thesis">>>>
ExpSample ==
    <<JobLine, <<"Acme">>, <<"Gauteng">>, DateLine,
      <<"bullet", "Built", "using", "Python", ",", "Java", ".", "Daily">>, Blank,
      <<"Lead", "Engineer">>, <<"Acme">>, <<"Remote">>, DateLine, <<"Testing">>>>

TextsOver(L, header, sample) ==
    (SeqUpTo(L, MaxLines) \ {<<>>})
    \cup {header \o t : t \in SeqUpTo(L, MaxLines)}
    \cup {<<Blank>>, sample}

EduTexts == TextsOver(EduLines, EduHeader, EduSample)
ExpTexts == TextsOver(ExpLines, ExpHeader, ExpSample)

SiteTexts(site) ==
    IF site \in {"normalize_data.education", "extract_resume.education"}
    THEN EduTexts ELSE ExpTexts

Sites == PSESites \cup {"parse.experience"} \cup EESites

EntIdle ==
    /\ e_site = None
    /\ e_pc = "idle"
    /\ e_lines = <<Blank>>
    /\ ei = 0
    /\ next_idx = 0
    /\ entries = <<>>
    /\ current_entry = NoEntry
    /\ current_lines = <<>>
    /\ normalized = <<>>
    /\ e_opened = {}

\* ------------------------------------------------- CVPipeline._parse_projects

ProjectKinds == {"app", "game", "system", "platform"}
IsTitleTok(t) == IsWord(t) \/ t = "-"          \* [\w\s-]
AllTitle(s) == \A k \in 1..Len(s) : IsTitleTok(s[k])
AllWords(s) == \A k \in 1..Len(s) : IsWord(s[k])
LastDash(line) ==
    IF \E k \in 1..Len(line) : line[k] = "-"
    THEN CHOOSE k \in 1..Len(line) :
            line[k] = "-" /\ \A j \in (k + 1)..Len(line) : line[j] # "-"
    ELSE 0

\* ^([\w\s-]+)\s+-\s+([\w\s]+)\s+(?:app|game|system|platform)$
\* ("ProjectName - A running fitness App")
TitleKind(line) ==
    LET k == LastDash(line)
    IN /\ k > 1 /\ k + 1 < Len(line)
       /\ AllTitle(SubSeq(line, 1, k - 1))
       /\ AllWords(SubSeq(line, k + 1, Len(line) - 1))
       /\ LowerTok(line[Len(line)]) \in ProjectKinds
TitleKindGroup2(line) == SubSeq(line, LastDash(line) + 1, Len(line) - 1)

\* ^project\s+\d+:\s*(.*)   ("Project 1: Name")
TitleProjectN(line) ==
    /\ Len(line) >= 3
    /\ LowerTok(line[1]) = "project" /\ line[2] \in Digits /\ line[3] = ":"

\* ^\d+\.\s*([\w\s-]+)   ("1. Project Name")
TitleNumbered(line) ==
    /\ Len(line) >= 3
    /\ line[1] \in Digits /\ line[2] = "." /\ IsTitleTok(line[3])

\* ^([\w\s-]+)\s*\((\d{4})\)   ("Project Name (2023)")
TitleYearAt(line) ==
    LET k == FirstIndex({j \in 1..Len(line) : line[j] = "("})
    IN IF /\ k > 1 /\ k + 2 <= Len(line)
          /\ AllTitle(SubSeq(line, 1, k - 1))
          /\ line[k + 1] \in Years /\ line[k + 2] = ")"
       THEN k ELSE 0
TitleYear(line) == TitleYearAt(line) > 0

\* a line ending in ':' or '-' taken for a title as well
IsNewProjectOrEnding(line) ==
    \/ TitleKind(line) \/ TitleProjectN(line) \/ TitleNumbered(line) \/ TitleYear(line)
    \/ (Len(line) > 0 /\ line[Len(line)] \in {":", "-"})

\* lines 420-423: some project pattern matches the line
IsNewProject(line) ==
    TitleKind(line) \/ TitleProjectN(line) \/ TitleNumbered(line) \/ TitleYear(line)

\* re.search(r'\d{4}', line), or "Present"
SearchYear(line) ==
    LET k == FirstIndex({j \in 1..Len(line) : line[j] \in Years})
    IN IF k = 0 THEN <<"Present">> ELSE <<line[k]>>

HasTok(line, toks) == \E k \in 1..Len(line) : LowerTok(line[k]) \in toks

\* lines 424-436: project_date for the first pattern that matches
ProjectDate(line) ==
    LET two_groups == TitleKind(line)
                      \/ (~TitleProjectN(line) /\ ~TitleNumbered(line) /\ TitleYear(line))
        group2 == IF TitleKind(line) THEN TitleKindGroup2(line)
                  ELSE <<line[TitleYearAt(line) + 1]>>
    IN IF (two_groups /\ HasTok(line, {"app"})) \/ HasTok(line, {"game"})
       THEN SearchYear(line)
       ELSE IF two_groups /\ group2[1] \in Years THEN group2
       ELSE SearchYear(line)

\* re.findall(r'using\s+([\w\s,]+)', line, re.IGNORECASE)[0] split on ','
RECURSIVE TechRun(_)
TechRun(s) ==
    IF s = <<>> \/ ~(IsWord(Head(s)) \/ Head(s) = ",") THEN <<>>
    ELSE <<Head(s)>> \o TechRun(Tail(s))

UsingTechs(line) ==
    LET hits == {k \in 1..(Len(line) - 1) :
                    LowerTok(line[k]) = "using" /\ IsWord(line[k + 1])}
    IN IF hits = {} THEN <<>>
       ELSE LET k == CHOOSE j \in hits : \A h \in hits : j <= h
            IN SplitOn(TechRun(SubSeq(line, k + 1, Len(line))), {","})

TechIndicators == {<<"technologies", ":">>, <<"tech", "stack", ":">>,
                   <<"built", "with", ":">>, <<"using", ":">>, <<"tools", ":">>}

\* lines 469-472: the entries of line.split(':', 1)[1] between ',' and '|'
IndicatedTechs(line) ==
    LET k == FirstIndex({j \in 1..Len(line) : line[j] = ":"})
    IN SelectSeq(SplitOn(SubSeq(line, k + 1, Len(line)), {",", "|"}),
                 LAMBDA t : t # Blank)

NewProject(line) ==
    [position |-> <<"Project", "Lead">>, company |-> <<"Personal", "Project">>,
     location |-> <<"Remote">>, start_date |-> ProjectDate(line),
     end_date |-> <<"Present">>, description |-> <<Blank>>,
     technologies |-> UsingTechs(line)]

\* lines 441-443, 484-486: a project is kept only if it has description lines
SavedProjects ==
    IF HasEntry(current_project) /\ description_lines # <<>>
    THEN Append(projects, [current_project EXCEPT !.description = Join(description_lines)])
    ELSE projects

\* lines 404-406: a blank line is skipped
SkipBlankLine ==
    UNCHANGED <<projects, current_project, description_lines, p_opened>>

\* lines 395-396: no text, no projects
ProjectsEmpty ==
    /\ p_pc = "scan"
    /\ p_i = 0
    /\ p_lines = <<Blank>>
    /\ p_pc' = "done"
    /\ UNCHANGED <<p_lines, p_i, projects, current_project, description_lines,
                   p_opened, objVars, otherVars, matchVars, detVars, entVars>>

\* lines 403-481: one iteration of the loop
ProjectLine ==
    /\ p_pc = "scan"
    /\ p_lines # <<Blank>>
    /\ p_i < Len(p_lines)
    /\ LET line == p_lines[p_i + 1]
       IN \/ /\ line = Blank
             /\ SkipBlankLine
          \/ /\ line # Blank
             /\ IsNewProject(line)
             /\ projects' = SavedProjects
             /\ current_project' = NewProject(line)
             /\ description_lines' = <<>>
             /\ p_opened' = p_opened \cup {p_i + 1}
          \/ /\ line # Blank
             /\ ~IsNewProject(line)
             /\ HasEntry(current_project)
             /\ AnyIn(TechIndicators, Lower(line))
             /\ current_project' = [current_project EXCEPT
                                      !.technologies = @ \o IndicatedTechs(line)]
             /\ UNCHANGED <<projects, description_lines, p_opened>>
          \/ /\ line # Blank
             /\ ~IsNewProject(line)
             /\ HasEntry(current_project)
             /\ ~AnyIn(TechIndicators, Lower(line))
             /\ description_lines' = Append(description_lines, line)
             /\ current_project' = [current_project EXCEPT
                                      !.technologies = @ \o UsingTechs(line)]
             /\ UNCHANGED <<projects, p_opened>>
          \/ /\ line # Blank
             /\ ~IsNewProject(line)
             /\ ~HasEntry(current_project)
             /\ UNCHANGED <<projects, current_project, description_lines, p_opened>>
    /\ p_i' = p_i + 1
    /\ UNCHANGED <<p_pc, p_lines, objVars, otherVars, matchVars, detVars, entVars>>

\* lines 483-488: the last project, and the return
ProjectsReturn ==
    /\ p_pc = "scan"
    /\ p_lines # <<Blank>>
    /\ p_i >= Len(p_lines)
    /\ projects' = SavedProjects
    /\ p_pc' = "done"
    /\ UNCHANGED <<p_lines, p_i, current_project, description_lines, p_opened,
                   objVars, otherVars, matchVars, detVars, entVars>>

ProjLines == {Blank,
              <<"1", ".", "Parser">>,
              <<"Parser", "(", "2023", ")">>,
              <<"Tracker", "-", "fitness", "app">>,
              <<"Notes", ":">>,
              <<"Tool", "-">>,
              <<"Technologies", ":", "Python", ",", "Java">>,
              <<"Built", "using", "Python">>}
ProjSamples == {<<Blank>>,
                << <<"Project", "1", ":", "Parser", "using", "Python", ",", "Java">>,
                   <<"Notes", ":">>, <<"Tool", "-">>, <<"Tools", ":", "Git", "|", "Make">>,
                   <<"Scanner", "-", "2022", "tracking", "system">>, <<"Fast">> >>}
ProjTexts == (SeqUpTo(ProjLines, MaxLines) \ {<<>>}) \cup ProjSamples

ProjIdle ==
    /\ p_pc = "idle"
    /\ p_lines = <<Blank>>
    /\ p_i = 0
    /\ projects = <<>>
    /\ current_project = NoEntry
    /\ description_lines = <<>>
    /\ p_opened = {}

\* ---- the documents of the model
DLines == {Blank, <<"Experience">>, <<"Education">>, <<"Skills">>, <<"Acme">>}
Blanks5 == <<Blank, Blank, Blank, Blank, Blank>>
Headers == {<<>>, Blanks5,
            << <<"John">>, Blank, Blank, Blank, Blank >>,
            << <<"Education">>, <<"Acme">>, Blank, Blank, Blank >>}
RawDocs == {h \o b : h \in Headers, b \in SeqUpTo(DLines, MaxBody)} \ {<<>>}
FewRaw == {<<Blank>>, << <<"Full", "raw", "text">> >>, Blanks5 \o << <<"Experience">> >>}

Block(text, page) == [text |-> text, position |-> page]
BlockSet == {Block(<<l>>, 1) : l \in {Blank, <<"Experience">>, <<"Education">>, <<"Acme">>}}
            \cup {Block(<< <<"Skills">>, <<"Python">> >>, 2)}
BlockDocs == SeqUpTo(BlockSet, MaxBlocks)
FewBlocks == {<<>>, <<Block(<< <<"Experience">> >>, 1), Block(<< <<"Acme">> >>, 1)>>}

Documents ==
    {[raw_text |-> r, content |-> c] : r \in RawDocs, c \in FewBlocks}
    \cup {[raw_text |-> r, content |-> c] : r \in FewRaw, c \in BlockDocs}

MatchIdle ==
    /\ m_pc = "idle"
    /\ m_text = Blank
    /\ m_font = 0
    /\ m_result = None
    /\ m_stage = "idle"

DetectIdle ==
    /\ d_pc = "idle"
    /\ document = [raw_text |-> <<Blank>>, content |-> <<>>]
    /\ lines = <<>>
    /\ i = 0
    /\ sections = EmptyDict
    /\ section_keys = <<>>
    /\ current_section = None
    /\ current_content = <<>>
    /\ bi = 0
    /\ li = 0
    /\ placed = {}
    /\ activated = {}

\* ---- the components at rest
pipelineVars == <<objVars, matchVars, detVars, entVars, projVars>>
notDateVars == <<pipelineVars, normVars, loadVars, buildVars, extraVars>>
notNormVars == <<pipelineVars, dateVars, loadVars, buildVars, extraVars>>
notLoadVars == <<pipelineVars, dateVars, normVars, buildVars, extraVars>>
notBuildVars == <<pipelineVars, dateVars, normVars, loadVars, extraVars>>
fieldVars == <<pipelineVars, dateVars, normVars, loadVars, buildVars>>
notSkillVars == <<fieldVars, piiVars, textVars, concVars>>
notPiiVars == <<fieldVars, skillVars, textVars, concVars>>
notTextVars == <<fieldVars, skillVars, piiVars, concVars>>
notConcVars == <<fieldVars, skillVars, piiVars, textVars>>
PipelineIdle ==
    /\ SectionDetectorInit(CfgEmpty)
    /\ MatchIdle
    /\ DetectIdle
    /\ EntIdle
    /\ ProjIdle
NormIdle ==
    /\ nm_pc = "idle"
    /\ nm_fn = "none"
    /\ nm_mapping = <<>>
    /\ nm_companies = <<>>
    /\ nm_calls = <<>>
    /\ nm_fuzzy = EmptyDict
LoadIdle ==
    /\ ld_pc = "idle"
    /\ ld_fn = "none"
    /\ ld_files = EmptyDict
    /\ ld_loaded = EmptyDict
    /\ ld_raised = None
BuildIdle ==
    /\ br_pc = "idle"
    /\ br_data = EmptyDict
    /\ br_result = [raised |-> None, resume |-> EmptyDict]
SkillIdle ==
    /\ sn_pc = "idle"
    /\ sn_loaded = <<>>
    /\ sn_ontology = <<>>
    /\ sn_skill_index = <<>>
    /\ sn_lower_index = EmptyDict
    /\ sn_calls = <<>>
PiiIdle ==
    /\ replacement_strategy = "none"
    /\ pii_cache = EmptyDict
    /\ current_pii_map = <<>>
    /\ pii_pc = "idle"
    /\ pii_text = <<>>
    /\ pii_anonymized = [text |-> <<>>, pii_map |-> <<>>]
    /\ pii_restored = <<>>
    /\ pii_runs = <<>>
FieldsIdle == PipelineIdle /\ NormIdle /\ LoadIdle /\ BuildIdle
TextIdle ==
    /\ tp_pc = "idle"
    /\ tp_lines = <<>>
    /\ tp_blocks = <<>>
ConcIdle ==
    /\ cc_self = EmptyDict
    /\ cc_built = EmptyDict
    /\ cc_found = EmptyDict
    /\ cc_docs = <<>>
ExtraIdle == SkillIdle /\ PiiIdle /\ TextIdle /\ ConcIdle

\* ============================================================ DateNormalizer
\* A date text is a sequence of tokens: each token is a maximal run of
\* letters, a maximal run of digits, or one other character (Space is the
\* blank character; "endash" and "emdash" stand for U+2013 and U+2014).

Space == " "
DateSeparators == {Space, "/", "-", ",", "endash", "emdash"}

\* the digits of a run of digits; <<>> for every other token
DigitsOf(t) ==
    CASE t = "1" -> <<1>>
      [] t = "3" -> <<3>>
      [] t = "5" -> <<5>>
      [] t = "05" -> <<0, 5>>
      [] t = "00" -> <<0, 0>>
      [] t = "10" -> <<1, 0>>
      [] t = "12" -> <<1, 2>>
      [] t = "13" -> <<1, 3>>
      [] t = "15" -> <<1, 5>>
      [] t = "29" -> <<2, 9>>
      [] t = "30" -> <<3, 0>>
      [] t = "31" -> <<3, 1>>
      [] t = "32" -> <<3, 2>>
      [] t = "202" -> <<2, 0, 2>>
      [] t = "0000" -> <<0, 0, 0, 0>>
      [] t = "2018" -> <<2, 0, 1, 8>>
      [] t = "2019" -> <<2, 0, 1, 9>>
      [] t = "2020" -> <<2, 0, 2, 0>>
      [] t = "2021" -> <<2, 0, 2, 1>>
      [] t = "2022" -> <<2, 0, 2, 2>>
      [] t = "12020" -> <<1, 2, 0, 2, 0>>
      [] t = "32021" -> <<3, 2, 0, 2, 1>>
      [] OTHER -> <<>>

IsNumber(t) == DigitsOf(t) # <<>>
IsSeparator(t) == t \in DateSeparators
IsLetters(t) == ~IsNumber(t) /\ ~IsSeparator(t)

\* int() of a sequence of digits
RECURSIVE IntOf(_)
IntOf(ds) ==
    IF ds = <<>> THEN 0
    ELSE IntOf(SubSeq(ds, 1, Len(ds) - 1)) * 10 + ds[Len(ds)]

\* ---- datetime.date
IsLeap(y) == y % 4 = 0 /\ (y % 100 # 0 \/ y % 400 = 0)
DaysInMonth(y, m) ==
    IF m = 2 THEN (IF IsLeap(y) THEN 29 ELSE 28)
    ELSE IF m \in {4, 6, 9, 11} THEN 30 ELSE 31

\* date(year, month, day) raises ValueError unless IsValidDate
IsValidDate(y, m, d) ==
    y \in 1..9999 /\ m \in 1..12 /\ d \in 1..DaysInMonth(y, m)
Date(y, m, d) == [year |-> y, month |-> m, day |-> d]
\* None where a date is expected
NoDate == [year |-> 0, month |-> 0, day |-> 0]

\* ---- DateNormalizer.__init__: self.month_map (0: no such key)
month_map(name) ==
    CASE name \in {"jan", "january"} -> 1
      [] name \in {"feb", "february"} -> 2
      [] name \in {"mar", "march"} -> 3
      [] name \in {"apr", "april"} -> 4
      [] name = "may" -> 5
      [] name \in {"jun", "june"} -> 6
      [] name \in {"jul", "july"} -> 7
      [] name \in {"aug", "august"} -> 8
      [] name \in {"sep", "september"} -> 9
      [] name \in {"oct", "october"} -> 10
      [] name \in {"nov", "november"} -> 11
      [] name \in {"dec", "december"} -> 12
      [] OTHER -> 0

\* month_str[:3] of a lower-case word
First3(word) ==
    CASE word = "january" -> "jan"
      [] word = "february" -> "feb"
      [] word = "september" -> "sep"
      [] word = "sept" -> "sep"
      [] word = "december" -> "dec"
      [] word = "march" -> "mar"
      [] word = "marble" -> "mar"
      [] word = "invalid" -> "inv"
      [] word = "until" -> "unt"
      [] word = "present" -> "pre"
      [] word = "current" -> "cur"
      [] word = "ongoing" -> "ong"
      [] word = "random" -> "ran"
      [] word = "text" -> "tex"
      [] OTHER -> word

\* line 39: re.search(r'\b(present|current|ongoing|now)\b', re.IGNORECASE);
\* a run of letters is bounded by \b unless a digit touches it
PresentWords == {"present", "current", "ongoing", "now"}
TouchesNumber(text, k) ==
    \/ k > 1 /\ IsNumber(text[k - 1])
    \/ k < Len(text) /\ IsNumber(text[k + 1])
HasPresentWord(text) ==
    \E k \in 1..Len(text) :
        LowerTok(text[k]) \in PresentWords /\ ~TouchesNumber(text, k)

\* the first number after token k, 0 if there is none
NextNumber(text, k) ==
    FirstIndex({j \in (k + 1)..Len(text) : IsNumber(text[j])})

\* the first token from k on that is not a space (Len + 1 if none)
SkipSpaces(text, k) ==
    LET j == FirstIndex({n \in k..Len(text) : text[n] # Space})
    IN IF j = 0 THEN Len(text) + 1 ELSE j

\* no match of a pattern
NoQuarter == [quarter |-> 0, year |-> 0]
NoMonthName == [month |-> "", year |-> 0]
NoMonthDigits == [month |-> 0, year |-> -1]
NoYear == -1

\* line 61: \bQ([1-4])\s*(\d{4})\b matched with the Q at token k
QuarterAt(text, k) ==
    IF /\ LowerTok(text[k]) = "q"
       /\ k < Len(text)
       /\ (k = 1 \/ ~IsNumber(text[k - 1]))
       /\ IsNumber(text[k + 1])
       /\ DigitsOf(text[k + 1])[1] \in 1..4
    THEN LET ds == DigitsOf(text[k + 1])
             j == SkipSpaces(text, k + 2)
         IN IF Len(ds) = 5 /\ (k + 1 = Len(text) \/ ~IsLetters(text[k + 2]))
            THEN [quarter |-> ds[1], year |-> IntOf(SubSeq(ds, 2, 5))]
            ELSE IF /\ Len(ds) = 1
                    /\ j <= Len(text)
                    /\ Len(DigitsOf(text[j])) = 4
                    /\ (j = Len(text) \/ ~IsLetters(text[j + 1]))
            THEN [quarter |-> ds[1], year |-> IntOf(DigitsOf(text[j]))]
            ELSE NoQuarter
    ELSE NoQuarter

quarter_match(text) ==
    LET k == FirstIndex({n \in 1..Len(text) : QuarterAt(text, n) # NoQuarter})
    IN IF k = 0 THEN NoQuarter ELSE QuarterAt(text, k)

\* patterns[0]: (?P<month>[a-z]+)[^\d]*(?P<year>\d{4}), leftmost match: the
\* first run of letters whose next number has four digits or more
MonthNamePattern(text) ==
    LET ok(k) == /\ IsLetters(text[k])
                 /\ NextNumber(text, k) # 0
                 /\ Len(DigitsOf(text[NextNumber(text, k)])) >= 4
        k == FirstIndex({n \in 1..Len(text) : ok(n)})
    IN IF k = 0 THEN NoMonthName
       ELSE [month |-> LowerTok(text[k]),
             year |-> IntOf(SubSeq(DigitsOf(text[NextNumber(text, k)]), 1, 4))]

\* patterns[1]: (?P<month>\d{1,2})[^\d]*(?P<year>\d{4}) tried at digit o + 1
\* of the number at token k: two digits are taken first, then one
MonthDigitsAt(text, k, o) ==
    LET ds == DigitsOf(text[k])
        r == Len(ds) - o
        nx == NextNumber(text, k)
        nxOk == nx # 0 /\ Len(DigitsOf(text[nx])) >= 4
        nxYear == IF nxOk THEN IntOf(SubSeq(DigitsOf(text[nx]), 1, 4)) ELSE NoYear
    IN IF r >= 6
       THEN [month |-> IntOf(SubSeq(ds, o + 1, o + 2)),
             year |-> IntOf(SubSeq(ds, o + 3, o + 6))]
       ELSE IF r = 2 /\ nxOk
       THEN [month |-> IntOf(SubSeq(ds, o + 1, o + 2)), year |-> nxYear]
       ELSE IF r = 5
       THEN [month |-> ds[o + 1], year |-> IntOf(SubSeq(ds, o + 2, o + 5))]
       ELSE IF r = 1 /\ nxOk
       THEN [month |-> ds[o + 1], year |-> nxYear]
       ELSE NoMonthDigits

MonthDigitsPattern(text) ==
    LET starts == {<<k, o>> \in (1..Len(text)) \X (0..4) :
                      /\ o < Len(DigitsOf(text[k]))
                      /\ MonthDigitsAt(text, k, o) # NoMonthDigits}
    IN IF starts = {} THEN NoMonthDigits
       ELSE LET s == CHOOSE s \in starts :
                        \A q \in starts :
                            s[1] < q[1] \/ (s[1] = q[1] /\ s[2] <= q[2])
            IN MonthDigitsAt(text, s[1], s[2])

\* patterns[2]: (?P<year>\d{4}), leftmost match
YearPattern(text) ==
    LET k == FirstIndex({n \in 1..Len(text) : Len(DigitsOf(text[n])) >= 4})
    IN IF k = 0 THEN NoYear ELSE IntOf(SubSeq(DigitsOf(text[k]), 1, 4))

\* lines 94-95: month_map.get(month_str) or month_map.get(month_str[:3])
MonthOfName(month_str) ==
    IF month_map(month_str) # 0 THEN month_map(month_str)
    ELSE month_map(First3(month_str))

\* the last month of a quarter, where the code takes the first
QuarterLastMonth(quarter) == quarter * 3

\* line 64: the first month of a quarter
QuarterMonth(quarter) == (quarter - 1) * 3 + 1

\* lines 76-105, one turn of the loop per pattern: the date it returns, or
\* NoDate where the turn ends in `continue`
FirstOfMonth(year, month) ==
    IF month # 0 /\ IsValidDate(year, month, 1) THEN Date(year, month, 1) ELSE NoDate

DateOfMonthName(m) ==
    IF m = NoMonthName THEN NoDate ELSE FirstOfMonth(m.year, MonthOfName(m.month))
FromMonthName(text) == DateOfMonthName(MonthNamePattern(text))

DateOfMonthDigits(m) ==
    IF m # NoMonthDigits /\ m.month \in 1..12 THEN FirstOfMonth(m.year, m.month)
    ELSE NoDate
FromMonthDigits(text) == DateOfMonthDigits(MonthDigitsPattern(text))

DateOfYear(y) == IF y = NoYear THEN NoDate ELSE FirstOfMonth(y, 1)
FromYear(text) == DateOfYear(YearPattern(text))

\* lines 108-114: a single number of four digits in the whole text
YearOnly(text) ==
    LET all_numbers == SelectSeq(text, IsNumber)
    IN IF Len(all_numbers) = 1 /\ Len(DigitsOf(all_numbers[1])) = 4
       THEN FirstOfMonth(IntOf(DigitsOf(all_numbers[1])), 1)
       ELSE NoDate

\* DateNormalizer._fallback_parse
\* the first of the dates that is one, NoDate if none is
FirstDate(dates) ==
    LET k == FirstIndex({n \in 1..Len(dates) : dates[n] # NoDate})
    IN IF k = 0 THEN NoDate ELSE dates[k]

\* lines 62-68: the quarter found returns from the function, date or None
DateOfQuarter(q) == FirstOfMonth(q.year, QuarterMonth(q.quarter))

FallbackParse(text) ==
    IF quarter_match(text) # NoQuarter THEN DateOfQuarter(quarter_match(text))
    ELSE FirstDate(<<FromMonthName(text), FromMonthDigits(text), FromYear(text),
                     YearOnly(text)>>)

\* ---- datetime.strptime with the formats of self.date_formats
FullMonths == {"january", "february", "march", "april", "may", "june", "july",
               "august", "september", "october", "november", "december"}
ShortMonths == {"jan", "feb", "mar", "apr", "may", "jun", "jul", "aug", "sep",
                "oct", "nov", "dec"}
IsYearField(t) == Len(DigitsOf(t)) = 4
IsMonthField(t) == Len(DigitsOf(t)) \in 1..2 /\ IntOf(DigitsOf(t)) \in 1..12
IsDayField(t) == Len(DigitsOf(t)) \in 1..2 /\ IntOf(DigitsOf(t)) \in 1..31

\* three numeric fields around one separator character
NumericFormat(text, sep, y, m, d) ==
    IF /\ Len(text) = 5 /\ text[2] = sep /\ text[4] = sep
       /\ IsYearField(text[y]) /\ IsMonthField(text[m]) /\ IsDayField(text[d])
       /\ IsValidDate(IntOf(DigitsOf(text[y])), IntOf(DigitsOf(text[m])),
                      IntOf(DigitsOf(text[d])))
    THEN Date(IntOf(DigitsOf(text[y])), IntOf(DigitsOf(text[m])),
              IntOf(DigitsOf(text[d])))
    ELSE NoDate

\* "%B %Y" and "%b %Y": a month name, white space, a year
NameFormat(text, names) ==
    IF /\ Len(text) >= 3
       /\ LowerTok(text[1]) \in names
       /\ \A k \in 2..(Len(text) - 1) : text[k] = Space
       /\ IsYearField(text[Len(text)])
       /\ IsValidDate(IntOf(DigitsOf(text[Len(text)])), month_map(LowerTok(text[1])), 1)
    THEN Date(IntOf(DigitsOf(text[Len(text)])), month_map(LowerTok(text[1])), 1)
    ELSE NoDate

\* "%Y"
YearFormat(text) ==
    IF /\ Len(text) = 1 /\ IsYearField(text[1])
       /\ IsValidDate(IntOf(DigitsOf(text[1])), 1, 1)
    THEN Date(IntOf(DigitsOf(text[1])), 1, 1)
    ELSE NoDate

\* DateNormalizer._parse_with_formats
ParseWithFormats(text) ==
    IF NumericFormat(text, "-", 1, 3, 5) # NoDate THEN NumericFormat(text, "-", 1, 3, 5)
    ELSE IF NumericFormat(text, "-", 5, 3, 1) # NoDate THEN NumericFormat(text, "-", 5, 3, 1)
    ELSE IF NumericFormat(text, "/", 5, 1, 3) # NoDate THEN NumericFormat(text, "/", 5, 1, 3)
    ELSE IF NameFormat(text, FullMonths) # NoDate THEN NameFormat(text, FullMonths)
    ELSE IF NameFormat(text, ShortMonths) # NoDate THEN NameFormat(text, ShortMonths)
    ELSE YearFormat(text)

\* the texts a call of normalize hands to dateparser.parse (line 43)
ParserCalls(date_str) ==
    IF date_str = Blank \/ HasPresentWord(date_str) THEN {} ELSE {date_str}

\* DateNormalizer.normalize; parsed[t] is what dateparser.parse returns for t
\* (NoDate for None), and the empty text stands for None as well
NormalizeDate(date_str, parsed) ==
    IF date_str = Blank THEN NoDate
    ELSE IF HasPresentWord(date_str) THEN today
    ELSE FirstDate(<<parsed[date_str], FallbackParse(date_str),
                     ParseWithFormats(date_str)>>)

\* ---- DateNormalizer.extract_period
\* str.strip()
RECURSIVE Strip(_)
Strip(text) ==
    IF text # <<>> /\ text[1] = Space THEN Strip(Tail(text))
    ELSE IF text # <<>> /\ text[Len(text)] = Space
    THEN Strip(SubSeq(text, 1, Len(text) - 1))
    ELSE text

\* line 133: the delimiters; `spaced` where white space is required around
delimiters ==
    << [core |-> "to", spaced |-> TRUE], [core |-> "-", spaced |-> TRUE],
       [core |-> "endash", spaced |-> FALSE], [core |-> "emdash", spaced |-> FALSE] >>

\* the white space a delimiter at token k takes with it, from token `from` on
SpanStart(text, k, from) ==
    LET others == {j \in from..(k - 1) : text[j] # Space}
    IN IF others = {} THEN from
       ELSE (CHOOSE j \in others : \A n \in others : n <= j) + 1
SpanEnd(text, k) ==
    LET others == {j \in (k + 1)..Len(text) : text[j] # Space}
    IN IF others = {} THEN Len(text)
       ELSE (CHOOSE j \in others : \A n \in others : j <= n) - 1

\* re.split(delimiter, text), from token `from` on
RECURSIVE ReSplit(_, _, _)
ReSplit(text, d, from) ==
    LET k == FirstIndex({n \in from..Len(text) :
                            /\ text[n] = d.core
                            /\ d.spaced => /\ SpanStart(text, n, from) < n
                                           /\ SpanEnd(text, n) > n})
    IN IF k = 0 THEN <<SubSeq(text, from, Len(text))>>
       ELSE <<SubSeq(text, from, SpanStart(text, k, from) - 1)>>
            \o ReSplit(text, d, SpanEnd(text, k) + 1)

\* the first delimiter that splits the text in two, 0 if none does
SplittingDelimiter(text) ==
    FirstIndex({d \in 1..Len(delimiters) : Len(ReSplit(text, delimiters[d], 1)) = 2})

\* a text never split: the whole text as start and as end
PeriodWhole(text) == <<Lower(text), Lower(text)>>

\* the strings handed to normalize: the two halves, or the text twice
PeriodParts(text) ==
    LET low == Lower(text)
        d == SplittingDelimiter(low)
    IN IF d = 0 THEN <<low, low>>
       ELSE <<Strip(ReSplit(low, delimiters[d], 1)[1]),
              Strip(ReSplit(low, delimiters[d], 1)[2])>>

\* lines 138-140 and 143-144: the two strings normalized
ExtractPeriod(parts, parsed) ==
    [n \in 1..2 |-> NormalizeDate(parts[n], parsed)]

\* ---- ExperienceNormalizer.calculate_duration
\* an argument: a date object, a string, or anything else (None)
DateArg(d) == [kind |-> "date", date |-> d, text |-> Blank]
StrArg(t) == [kind |-> "str", date |-> NoDate, text |-> t]
NoneArg == [kind |-> "none", date |-> NoDate, text |-> Blank]

\* dt1 < dt2
DateBefore(dt1, dt2) ==
    \/ dt1.year < dt2.year
    \/ dt1.year = dt2.year /\ dt1.month < dt2.month
    \/ dt1.year = dt2.year /\ dt1.month = dt2.month /\ dt1.day < dt2.day

\* dt + relativedelta(months=n): the day is cut to the length of the month
AddMonths(dt, n) ==
    LET t == dt.year * 12 + (dt.month - 1) + n
        y == t \div 12
        m == (t % 12) + 1
    IN Date(y, m, IF dt.day > DaysInMonth(y, m) THEN DaysInMonth(y, m) ELSE dt.day)

\* dt1 - dtm in days, for dtm <= dt1 less than a month apart
DaysBetween(dtm, dt1) ==
    IF dtm.month = dt1.month THEN dt1.day - dtm.day
    ELSE DaysInMonth(dtm.year, dtm.month) - dtm.day + dt1.day

\* line 196: relativedelta(dt1, dt2) for dt2 <= dt1: the whole months from
\* dt2 that do not pass dt1, and the days left
RelativeDelta(dt1, dt2) ==
    LET whole == (dt1.year - dt2.year) * 12 + (dt1.month - dt2.month)
        months == IF DateBefore(dt1, AddMonths(dt2, whole)) THEN whole - 1 ELSE whole
    IN [years |-> months \div 12, months |-> months % 12,
        days |-> DaysBetween(AddMonths(dt2, months), dt1)]

\* lines 172-175 and 181-184: datetime.strptime is handed the date object that
\* normalize returned, and raises TypeError
StrptimeRaises(arg, parsed) ==
    arg.kind = "str" /\ NormalizeDate(arg.text, parsed) # NoDate

\* the texts one argument of calculate_duration hands to dateparser.parse
ArgCalls(arg) == IF arg.kind = "str" THEN ParserCalls(arg.text) ELSE {}

CalculateDuration(start, end, parsed) ==
    IF StrptimeRaises(start, parsed) \/ StrptimeRaises(end, parsed)
    THEN 0                                            \* lines 204-206
    ELSE LET start_dt == start.date
             end_dt == IF end.date = NoDate THEN today ELSE end.date
         IN IF start_dt = NoDate THEN 0
            ELSE IF DateBefore(end_dt, start_dt) THEN 0
            ELSE LET delta == RelativeDelta(end_dt, start_dt)
                     total_months == delta.years * 12 + delta.months
                 IN IF delta.days > 0 THEN total_months + 1 ELSE total_months

\* ---- the calls of the model
\* what dateparser.parse may return: None, or a date of its own
ParserOutcomes == {NoDate, Date(2020, 2, 29), Date(2021, 6, 15)}
Todays == {Date(2024, 2, 29), Date(2025, 7, 31)}

\* one call of DateNormalizer.normalize
NormalizeDateCall ==
    /\ dn_pc = "call"
    /\ dn_fn = "normalize"
    /\ \E parsed \in [ParserCalls(dn_args[1]) -> ParserOutcomes] :
          /\ dn_parsed' = parsed
          /\ dn_result' = NormalizeDate(dn_args[1], parsed)
    /\ dn_pc' = "return"
    /\ UNCHANGED <<today, dn_fn, dn_args, notDateVars>>

\* one call of DateNormalizer.extract_period
ExtractPeriodCall ==
    /\ dn_pc = "call"
    /\ dn_fn = "extract_period"
    /\ \E parts \in {PeriodParts(dn_args[1])} :
          \E parsed \in [ParserCalls(parts[1]) \cup ParserCalls(parts[2])
                            -> ParserOutcomes] :
             /\ dn_parsed' = parsed
             /\ dn_result' = ExtractPeriod(parts, parsed)
    /\ dn_pc' = "return"
    /\ UNCHANGED <<today, dn_fn, dn_args, notDateVars>>

\* one call of ExperienceNormalizer.calculate_duration
CalculateDurationCall ==
    /\ dn_pc = "call"
    /\ dn_fn = "calculate_duration"
    /\ \E p1 \in [ArgCalls(dn_args[1]) -> ParserOutcomes],
          p2 \in [ArgCalls(dn_args[2]) -> ParserOutcomes] :
          \* the end is not looked at when the start has raised
          \E parsed \in {IF StrptimeRaises(dn_args[1], p1) THEN p1 ELSE p1 @@ p2} :
             /\ \A t \in DOMAIN p1 \cap DOMAIN p2 : p1[t] = p2[t]
             /\ dn_parsed' = parsed
             /\ dn_result' = CalculateDuration(dn_args[1], dn_args[2], parsed)
    /\ dn_pc' = "return"
    /\ UNCHANGED <<today, dn_fn, dn_args, notDateVars>>

\* ---- the date texts of the model
DateWords == {"Jan", "january", "Feb", "DECEMBER", "sept", "may", "marble",
              "invalid", "Q", "q", "Present", "now", "to", "Until"}
DateNumbers == {"1", "3", "5", "05", "00", "12", "13", "30", "202", "0000",
                "2020", "2021", "12020", "32021"}
\* no two runs of letters and no two runs of digits are adjacent
WellFormedDate(text) ==
    \A k \in 1..(Len(text) - 1) :
        /\ ~(IsNumber(text[k]) /\ IsNumber(text[k + 1]))
        /\ ~(IsLetters(text[k]) /\ IsLetters(text[k + 1]))
DateSamples ==
    { <<"Feb", Space, "30", Space, "2020">>, <<"Feb", Space, "29", Space, "2021">>,
      <<"Feb", Space, "29", Space, "2020">>, <<"Feb", Space, "30">>,
      <<"13", "/", "2022">>, <<"32", "/", "13", "/", "2020">>,
      <<"Random", Space, "text">>, <<"In", Space, "2019">>,
      <<"2020", "-", "12", "-", "31">>, <<"15", "-", "05", "-", "2021">>,
      <<"12", "/", "31", "/", "2020">>, <<"january", Space, Space, "2021">>,
      <<"Q", "3", Space, Space, "2021">>, <<"Q", "5", Space, "2020">>,
      <<"1", "Q", "1", Space, "2020">>, <<"Q", "1", Space, "2020", "x">>,
      <<Space, "2020">>, <<Space>>, <<"Date", ",", Space, "Jan", Space, "2020">> }
DateTexts ==
    {<<t>> : t \in DateWords \cup DateNumbers}
    \cup {<<a, s, n>> : a \in DateWords \cup DateNumbers,
                        s \in {Space, "/", "-"}, n \in DateNumbers}
    \cup {<<w, n>> : w \in DateWords, n \in DateNumbers}
    \cup {<<w, n, Space, y>> : w \in {"Q", "q", "Jan"}, n \in DateNumbers,
                               y \in {"2020", "202", "12020"}}
    \cup DateSamples
    \cup {Blank}

PeriodHalves == {<<"Jan", Space, "2020">>, <<"2021">>, <<"Present">>,
                 <<"05", "/", "2020">>, <<"2020", "-", "12", "-", "31">>}
PeriodDelimiters ==
    {<<Space, "to", Space>>, <<Space, "TO", Space>>, <<"to">>, <<Space, "to">>,
     <<Space, "-", Space>>, <<"-">>, <<Space, "-">>, <<"endash">>,
     <<Space, "endash", Space>>, <<"emdash">>, <<Space, Space, "emdash">>}
PeriodTexts ==
    {t \in {a \o d \o b : a \in PeriodHalves, d \in PeriodDelimiters,
                           b \in PeriodHalves} : WellFormedDate(t)}
    \cup {t \in {a \o d \o b \o e \o <<"2021">> :
                    a \in {<<"Jan", Space, "2020">>, <<"2020">>},
                    d \in PeriodDelimiters,
                    b \in {<<"Present">>, <<"2021">>},
                    e \in PeriodDelimiters} : WellFormedDate(t)}
    \cup PeriodHalves \cup {Blank, <<Space, "2021", Space>>}

DurationDates ==
    {Date(2020, 1, 1), Date(2022, 1, 1), Date(2022, 1, 15), Date(2022, 3, 10),
     Date(2020, 1, 31), Date(2020, 2, 29), Date(2020, 3, 1), Date(2021, 2, 28),
     Date(2021, 3, 30), Date(2021, 12, 31)}
DurationArgs ==
    {DateArg(d) : d \in DurationDates}
    \cup {StrArg(t) : t \in {<<"2020", "-", "01", "-", "01">>, <<"Jan", Space, "2020">>,
                             <<"Present">>, <<"invalid">>, Blank}}
    \cup {NoneArg}

DateIdle ==
    /\ today = Date(2024, 2, 29)
    /\ dn_pc = "idle"
    /\ dn_fn = "none"
    /\ dn_args = <<>>
    /\ dn_parsed = EmptyDict
    /\ dn_result = NoDate

InitDates ==
    /\ PipelineIdle
    /\ ExtraIdle
    /\ NormIdle
    /\ LoadIdle
    /\ BuildIdle
    /\ today \in Todays
    /\ dn_pc = "call"
    /\ \/ dn_fn = "normalize" /\ dn_args \in {<<t>> : t \in DateTexts}
       \/ dn_fn = "extract_period" /\ dn_args \in {<<t>> : t \in PeriodTexts}
       \/ dn_fn = "calculate_duration" /\ dn_args \in DurationArgs \X DurationArgs
    /\ dn_parsed = EmptyDict
    /\ dn_result = NoDate

NextDates ==
    \/ NormalizeDateCall
    \/ ExtractPeriodCall
    \/ CalculateDurationCall

SpecDates == InitDates /\ [][NextDates]_vars

\* ========================================================= field normalizers
\* A name is a line of tokens with its blanks: words, Space and punctuation
\* marks.  A mapping file is its entries in file order, each a canonical name
\* with the list of its variants.  The pattern file is absent (no category
\* labels, company suffixes, title abbreviations or institution indicators).

MapEntry(canonical, variants) == [canonical |-> canonical, variants |-> variants]

\* no name: None
NoName == <<None>>
Unknown == <<"Unknown">>

\* `x in list`
InList(x, list) == \E k \in 1..Len(list) : list[k] = x

\* canonical, variants, canonical, variants, ... in file order
RECURSIVE Flatten(_)
Flatten(mapping) ==
    IF mapping = <<>> THEN <<>>
    ELSE <<mapping[1].canonical>> \o mapping[1].variants \o Flatten(Tail(mapping))

\* _create_index (a set made a list) and _create_skill_index (a list without
\* repetitions): as a set of names
Index(mapping) == {Flatten(mapping)[k] : k \in 1..Len(Flatten(mapping))}

\* SkillNormalizer.lower_index[low]: a later name of skill_index replaces an
\* earlier one with the same lower-case form
LowerIndexOf(flat, low) ==
    LET firsts == {k \in 1..Len(flat) :
                      /\ Lower(flat[k]) = low
                      /\ \A j \in 1..(k - 1) : flat[j] # flat[k]}
    IN IF firsts = {} THEN NoName
       ELSE flat[CHOOSE k \in firsts : \A j \in firsts : j <= k]
lower_index(mapping, low) == LowerIndexOf(Flatten(mapping), low)

\* _get_canonical: the first entry that has the name as key or as variant
CanonicalAt(mapping, k, name) == IF k = 0 THEN name ELSE mapping[k].canonical
GetCanonical(name, mapping) ==
    CanonicalAt(mapping,
                FirstIndex({k \in 1..Len(mapping) :
                               \/ mapping[k].canonical = name
                               \/ InList(name, mapping[k].variants)}),
                name)

\* process.extractOne(text, index, scorer=fuzz.WRatio, score_cutoff=...): what
\* it may return.  A text of the index scores 100 with itself, and only a name
\* equal to it up to letter case can score as much; an empty text scores 0;
\* for any other text the best name may or may not reach the cutoff.
FuzzyOutcomes(text, index) ==
    IF text = Blank THEN {NoName}
    ELSE IF text \in index THEN {e \in index : Lower(e) = Lower(text)}
    ELSE index \cup {NoName}

\* the canonical name of what extractOne returned, None if it returned nothing
FuzzyMatch(text, mapping, fuzzy) ==
    IF fuzzy[text] = NoName THEN NoName ELSE GetCanonical(fuzzy[text], mapping)

\* ---- SkillNormalizer.normalize
\* line 64: re.sub(r'\([^)]*\)', '', skill)
RECURSIVE RemoveParentheticals(_)
ParentheticalEnd(text, k) ==
    FirstIndex({j \in (k + 1)..Len(text) : text[j] = ")"})
RemoveFrom(text, k) ==
    IF k = 0 THEN text
    ELSE SubSeq(text, 1, k - 1)
         \o RemoveParentheticals(SubSeq(text, ParentheticalEnd(text, k) + 1, Len(text)))
RemoveParentheticals(text) ==
    RemoveFrom(text, FirstIndex({k \in 1..Len(text) :
                                    text[k] = "(" /\ ParentheticalEnd(text, k) # 0}))

\* lines 61-65: the skill as it is looked up
CleanSkill(skill) == Strip(RemoveParentheticals(skill))

\* lines 67-81, for the cleaned skill
MatchSkill(skill, mapping, fuzzy) ==
    IF lower_index(mapping, Lower(skill)) # NoName
    THEN GetCanonical(lower_index(mapping, Lower(skill)), mapping)
    ELSE IF FuzzyMatch(skill, mapping, fuzzy) # NoName
    THEN FuzzyMatch(skill, mapping, fuzzy)
    ELSE skill

SkillNormalize(skill, mapping, fuzzy) ==
    IF skill = Blank THEN Blank
    ELSE IF Strip(skill) = Blank THEN skill
    ELSE MatchSkill(CleanSkill(skill), mapping, fuzzy)

\* the texts SkillNormalizer.normalize hands to extractOne
SkillFuzzyCalls(skill, mapping) ==
    IF Strip(skill) = Blank \/ lower_index(mapping, Lower(CleanSkill(skill))) # NoName
    THEN {}
    ELSE {CleanSkill(skill)}

\* ---- ExperienceNormalizer
\* line 61: the default artifacts pattern [^\w\s&.,-]
CompanyArtifacts == {"(", ")", "!", "|", ":", "bullet", "endash", "emdash"}
IsCompanyToken(t) == t \notin CompanyArtifacts
CleanCompany(name) == SelectSeq(name, IsCompanyToken)

\* _match_entity: the exact test is made against company_index whatever the
\* mapping; the fuzzy search is made in the index of the mapping
MatchEntity(text, mapping, companies, fuzzy) ==
    IF text \in Index(companies) THEN GetCanonical(text, mapping)
    ELSE FuzzyMatch(text, mapping, fuzzy)

\* `x or y`
OrElse(x, y) == IF x = NoName \/ x = Blank THEN y ELSE x

normalize_company(name, companies, fuzzy) ==
    IF name = Blank THEN Blank
    ELSE OrElse(MatchEntity(CleanCompany(name), companies, companies, fuzzy), name)

\* normalize_title without abbreviations: expanded is the title, and the
\* second _match_entity repeats the first
normalize_title(title, mapping, companies, fuzzy) ==
    IF title = Blank THEN Blank
    ELSE OrElse(MatchEntity(title, mapping, companies, fuzzy), title)

\* the texts _match_entity hands to extractOne
EntityFuzzyCalls(text, companies) ==
    IF text = Blank \/ text \in Index(companies) THEN {} ELSE {text}

\* ---- EducationNormalizer
\* lines 58-59: [^\w\s&.,-] removed, then every '.'
IsInstitutionToken(t) == t \notin CompanyArtifacts \cup {"."}
CleanInstitution(name) == SelectSeq(name, IsInstitutionToken)

\* lines 74-89, for the cleaned name
MatchInstitution(clean_name, mapping, fuzzy) ==
    IF clean_name = Blank THEN Unknown
    ELSE IF clean_name \in Index(mapping) THEN GetCanonical(clean_name, mapping)
    ELSE IF FuzzyMatch(clean_name, mapping, fuzzy) # NoName
    THEN FuzzyMatch(clean_name, mapping, fuzzy)
    ELSE Unknown

normalize_institution(name, mapping, fuzzy) ==
    IF name = Blank THEN Unknown
    ELSE MatchInstitution(CleanInstitution(name), mapping, fuzzy)

InstitutionFuzzyCalls(name, mapping) ==
    IF CleanInstitution(name) = Blank \/ CleanInstitution(name) \in Index(mapping)
    THEN {}
    ELSE {CleanInstitution(name)}

\* line 97: [^\w\s] removed
IsDegreeToken(t) == t \notin CompanyArtifacts \cup {".", ",", "&", "-"}
\* lines 108-110: Masters, Admin and in, whatever their case
DegreeWord(t) ==
    CASE LowerTok(t) = "masters" -> "Master"
      [] LowerTok(t) = "admin" -> "Administration"
      [] LowerTok(t) = "in" -> "of"
      [] OTHER -> t
\* line 111: a last word Degree is removed, then strip()
DropDegree(text) ==
    IF text # Blank /\ LowerTok(text[Len(text)]) = "degree"
    THEN Strip(SubSeq(text, 1, Len(text) - 1))
    ELSE Strip(text)
SubstituteDegreeWords(text) == [k \in 1..Len(text) |-> DegreeWord(text[k])]
CleanDegree(degree) ==
    DropDegree(SubstituteDegreeWords(SelectSeq(degree, IsDegreeToken)))

\* lines 113-129, for the cleaned degree
MatchDegree(clean_degree, degree, mapping, fuzzy) ==
    IF clean_degree = Blank THEN degree
    ELSE IF clean_degree \in Index(mapping) THEN GetCanonical(clean_degree, mapping)
    ELSE IF FuzzyMatch(clean_degree, mapping, fuzzy) # NoName
    THEN FuzzyMatch(clean_degree, mapping, fuzzy)
    ELSE clean_degree

normalize_degree(degree, mapping, fuzzy) ==
    IF degree = Blank THEN Blank
    ELSE MatchDegree(CleanDegree(degree), degree, mapping, fuzzy)

DegreeFuzzyCalls(degree, mapping) ==
    IF CleanDegree(degree) = Blank \/ CleanDegree(degree) \in Index(mapping)
    THEN {}
    ELSE {CleanDegree(degree)}

\* ---- ExperienceNormalizer.normalize, for entries without description,
\* technologies and dates.  A raw entry is a dictionary or something else.
DictEntry(d) == [kind |-> "dict", d |-> d]
OtherEntry == [kind |-> "other", d |-> EmptyDict]
IsDictEntry(entry) == entry.kind = "dict"

\* lines 238-243: normalized_entry
NormalizeExperienceEntry(d, mapping, companies, fuzzy) ==
    [company |-> normalize_company(Get(d, "company", Blank), companies, fuzzy.company),
     position |-> normalize_title(Get(d, "position", Blank), mapping, companies,
                                  fuzzy.position),
     description |-> Blank,
     technologies |-> <<>>]

ExperienceNormalize(experience_entries, mapping, companies, fuzzy) ==
    [k \in 1..Len(SelectSeq(experience_entries, IsDictEntry)) |->
        NormalizeExperienceEntry(SelectSeq(experience_entries, IsDictEntry)[k].d,
                                 mapping, companies, fuzzy)]

\* the texts the entries hand to extractOne, for one of their fields
FieldFuzzyCalls(experience_entries, field, companies) ==
    UNION {EntityFuzzyCalls(IF field = "company"
                            THEN CleanCompany(Get(experience_entries[k].d, field, Blank))
                            ELSE Get(experience_entries[k].d, field, Blank),
                            companies) :
           k \in {n \in 1..Len(experience_entries) : IsDictEntry(experience_entries[n])}}

\* ---- the calls of the model
\* what extractOne returns for the texts of one call, in keeping with what it
\* has returned before
Oracles(texts, index, before) ==
    {f \in [texts -> index \cup {NoName}] :
        \A t \in texts : /\ f[t] \in FuzzyOutcomes(t, index)
                         /\ t \in DOMAIN before => f[t] = before[t]}

\* the argument of the call under way
NormArg == nm_calls[Len(nm_calls)].arg

NormReturn(result, fuzzy) ==
    /\ nm_fuzzy' = fuzzy
    /\ nm_calls' = [nm_calls EXCEPT ![Len(nm_calls)].result = result]
    /\ nm_pc' = "return"
    /\ UNCHANGED <<nm_fn, nm_mapping, nm_companies, notNormVars>>

SkillNormalizeCall ==
    /\ nm_pc = "call" /\ nm_fn = "SkillNormalizer.normalize"
    /\ \E skill \in {NormArg} :
          \E f \in Oracles(SkillFuzzyCalls(skill, nm_mapping), Index(nm_mapping), nm_fuzzy) :
             NormReturn(SkillNormalize(skill, nm_mapping, f), f @@ nm_fuzzy)

NormalizeCompanyCall ==
    /\ nm_pc = "call" /\ nm_fn = "normalize_company"
    /\ \E name \in {NormArg} :
          \E f \in Oracles(EntityFuzzyCalls(CleanCompany(name), nm_companies),
                           Index(nm_companies), nm_fuzzy) :
             NormReturn(normalize_company(name, nm_companies, f), f @@ nm_fuzzy)

NormalizeTitleCall ==
    /\ nm_pc = "call" /\ nm_fn = "normalize_title"
    /\ \E title \in {NormArg} :
          \E f \in Oracles(EntityFuzzyCalls(title, nm_companies), Index(nm_mapping),
                           nm_fuzzy) :
             NormReturn(normalize_title(title, nm_mapping, nm_companies, f), f @@ nm_fuzzy)

NormalizeInstitutionCall ==
    /\ nm_pc = "call" /\ nm_fn = "normalize_institution"
    /\ \E name \in {NormArg} :
          \E f \in Oracles(InstitutionFuzzyCalls(name, nm_mapping), Index(nm_mapping),
                           nm_fuzzy) :
             NormReturn(normalize_institution(name, nm_mapping, f), f @@ nm_fuzzy)

NormalizeDegreeCall ==
    /\ nm_pc = "call" /\ nm_fn = "normalize_degree"
    /\ \E degree \in {NormArg} :
          \E f \in Oracles(DegreeFuzzyCalls(degree, nm_mapping), Index(nm_mapping),
                           nm_fuzzy) :
             NormReturn(normalize_degree(degree, nm_mapping, f), f @@ nm_fuzzy)

\* EducationNormalizer.normalize: no name is looked up
EducationNormalizeCall ==
    /\ nm_pc = "call" /\ nm_fn = "EducationNormalizer.normalize"
    /\ NormReturn(Normalize(NormArg), nm_fuzzy)

ExperienceNormalizeCall ==
    /\ nm_pc = "call" /\ nm_fn = "ExperienceNormalizer.normalize"
    /\ \E experience_entries \in {NormArg} :
          \E fc \in Oracles(FieldFuzzyCalls(experience_entries, "company", nm_companies),
                            Index(nm_companies), EmptyDict),
             fp \in Oracles(FieldFuzzyCalls(experience_entries, "position", nm_companies),
                            Index(nm_mapping), EmptyDict) :
             \E f \in {[company |-> fc, position |-> fp]} :
                NormReturn(ExperienceNormalize(experience_entries, nm_mapping,
                                               nm_companies, f), f)

\* ---- the names and mappings of the model
NormNames ==
    { <<"Google">>, <<"google">>, <<"GOOG">>, <<"Alphabet">>, <<"Acme">>,
      <<"Google", "!">>, <<"Google", Space, "(", "SA", ")">>, <<"(", "SA", ")">>,
      <<"MSc">>, <<"msc", ".">>, <<"Masters", Space, "in", Space, "Science">>,
      <<"Master", Space, "of", Space, "Science", Space, "Degree">>,
      <<Space>>, Blank }
MasterOfScience == <<"Master", Space, "of", Space, "Science">>
PlainMapping ==
    << MapEntry(<<"Alphabet">>, << <<"Google">> >>),
       MapEntry(MasterOfScience, << <<"MSc">> >>) >>
\* a canonical name that is a variant of another one
ChainedMapping ==
    << MapEntry(<<"Alphabet">>, << <<"Google">> >>),
       MapEntry(<<"Google">>, << <<"GOOG">> >>) >>
\* two names that differ in letter case only, under different canonical names
CasedMapping ==
    << MapEntry(<<"Google">>, << <<"GOOG">> >>),
       MapEntry(<<"Alphabet">>, << <<"google">> >>) >>
Mappings == {<<>>, PlainMapping, ChainedMapping, CasedMapping}

NameMethods == {"SkillNormalizer.normalize", "normalize_company", "normalize_title",
                "normalize_institution", "normalize_degree"}

\* a second call: of the result of the first, or of a name that differs from
\* the first in letter case only
SecondNames(call) ==
    {call.result} \cup {n \in NormNames : Lower(n) = Lower(call.arg)}

NormAgain ==
    /\ nm_pc = "return" /\ nm_fn \in NameMethods
    /\ Len(nm_calls) = 1
    /\ \E name \in SecondNames(nm_calls[1]) :
          nm_calls' = Append(nm_calls, [arg |-> name, result |-> NoName])
    /\ nm_pc' = "call"
    /\ UNCHANGED <<nm_fn, nm_mapping, nm_companies, nm_fuzzy, notNormVars>>

EducationEntries ==
    { [institution |-> <<"MIT">>, degree |-> <<"MSc">>],
      [institution |-> <<"Google">>, degree |-> <<"MSc">>, gpa |-> <<"3.8">>],
      [institution |-> Blank, degree |-> <<"MSc">>],
      [degree |-> <<"MSc">>] }
ExperienceEntries ==
    { DictEntry([company |-> <<"Google">>, position |-> <<"Engineer">>]),
      DictEntry([company |-> Blank, position |-> <<"Engineer">>]),
      DictEntry([position |-> <<"Developer">>]),
      OtherEntry }

InitNorm ==
    /\ PipelineIdle
    /\ ExtraIdle
    /\ DateIdle
    /\ LoadIdle
    /\ BuildIdle
    /\ nm_pc = "call"
    /\ nm_mapping \in Mappings
    /\ nm_fuzzy = EmptyDict
    /\ \/ /\ nm_fn \in NameMethods
          /\ nm_companies \in IF nm_fn = "normalize_company" THEN {nm_mapping}
                              ELSE IF nm_fn = "normalize_title" THEN {<<>>, PlainMapping}
                              ELSE {<<>>}
          /\ nm_calls \in {<<[arg |-> name, result |-> NoName]>> : name \in NormNames}
       \/ /\ nm_fn = "EducationNormalizer.normalize"
          /\ nm_companies = <<>>
          /\ nm_calls \in {<<[arg |-> es, result |-> <<>>]>> :
                             es \in SeqUpTo(EducationEntries, 2)}
       \/ /\ nm_fn = "ExperienceNormalizer.normalize"
          /\ nm_companies \in {<<>>, PlainMapping}
          /\ nm_calls \in {<<[arg |-> es, result |-> <<>>]>> :
                             es \in SeqUpTo(ExperienceEntries, 2)}

NextNorm ==
    \/ SkillNormalizeCall
    \/ NormalizeCompanyCall
    \/ NormalizeTitleCall
    \/ NormalizeInstitutionCall
    \/ NormalizeDegreeCall
    \/ EducationNormalizeCall
    \/ ExperienceNormalizeCall
    \/ NormAgain

SpecNorm == InitNorm /\ [][NextNorm]_vars

\* ---- SkillNormalizer.normalize_list
\* tokens of one character, and tokens without a letter or a digit
SingleChars == {"x", "C", "-", "*", "bullet", ":", ",", "&", "|", "/", "(", ")", "!", ".", Space}
NonAlnum == {"-", "*", "bullet", "endash", "emdash", ":", ",", "&", "|", "/", "(", ")", "!", ".", Space}

\* len(text) <= 1
AtMostOneChar(text) == text = <<>> \/ (Len(text) = 1 /\ text[1] \in SingleChars)
\* re.search(r'[a-zA-Z0-9]', text)
HasAlnum(text) == \E k \in 1..Len(text) : text[k] \notin NonAlnum

\* lines 91-100: the skills that are not skipped, stripped
KeptSkill(skill) ==
    /\ Strip(skill) # Blank
    /\ ~AtMostOneChar(Strip(skill))
    /\ HasAlnum(Strip(skill))

\* text.split(delimiter) with every piece stripped
StripAll(pieces) == [k \in 1..Len(pieces) |-> Strip(pieces[k])]

\* lines 105-112: the content after the first colon is split at the first
\* of the delimiters it contains, or taken whole
ListDelimiters == <<",", "&", "|", "/", "and">>
FirstDelimiter(content) ==
    FirstIndex({d \in 1..Len(ListDelimiters) : InList(ListDelimiters[d], content)})
SplitContent(content, d) ==
    IF d = 0 THEN <<Strip(content)>>
    ELSE StripAll(SplitOn(content, {ListDelimiters[d]}))
AfterColon(skill) ==
    SubSeq(skill, FirstIndex({k \in 1..Len(skill) : skill[k] = ":"}) + 1, Len(skill))
\* lines 102-115, for a stripped skill
PartsOf(skill) ==
    IF InList(":", skill)
    THEN SplitContent(AfterColon(skill), FirstDelimiter(AfterColon(skill)))
    ELSE <<skill>>

\* line 123: re.sub(r'^[-•*]\s*', '', part)
RemoveBullet(part) ==
    IF part # <<>> /\ part[1] \in {"-", "bullet", "*"}
    THEN SubSeq(part, FirstIndex({k \in 2..(Len(part) + 1) :
                                     k > Len(part) \/ part[k] # Space}), Len(part))
    ELSE part
\* line 124: re.sub(r'\s+', ' ', part)
RECURSIVE CollapseSpaces(_)
CollapseSpaces(part) ==
    IF Len(part) < 2 THEN part
    ELSE IF part[1] = Space /\ part[2] = Space THEN CollapseSpaces(Tail(part))
    ELSE <<part[1]>> \o CollapseSpaces(Tail(part))
CleanPart(part) == CollapseSpaces(RemoveBullet(Strip(part)))

\* line 130: re.findall(r'\((.*?)\)', part)
RECURSIVE SubSkills(_)
SubSkillsFrom(part, k) ==
    IF k = 0 THEN <<>>
    ELSE <<SubSeq(part, k + 1, ParentheticalEnd(part, k) - 1)>>
         \o SubSkills(SubSeq(part, ParentheticalEnd(part, k) + 1, Len(part)))
SubSkills(part) ==
    SubSkillsFrom(part, FirstIndex({k \in 1..Len(part) :
                                       part[k] = "(" /\ ParentheticalEnd(part, k) # 0}))

\* lines 138-141: the pieces of the sub-skills that are normalized
RECURSIVE Concat(_)
Concat(lists) == IF lists = <<>> THEN <<>> ELSE Head(lists) \o Concat(Tail(lists))
IsSubPart(sub_part) == sub_part # Blank /\ ~AtMostOneChar(sub_part)
SubParts(sub_skills) ==
    SelectSeq(Concat([k \in 1..Len(sub_skills) |->
                         StripAll(SplitOn(sub_skills[k], {",", "&"}))]),
              IsSubPart)

\* lines 126-146: the texts of one cleaned part that are handed to normalize
MainSkill(part) == Strip(RemoveParentheticals(part))
TextsOfPart(part) ==
    IF InList("(", part) /\ InList(")", part)
    THEN (IF MainSkill(part) # Blank THEN <<MainSkill(part)>> ELSE <<>>)
         \o SubParts(SubSkills(part))
    ELSE <<part>>

\* lines 117-120: the parts that are not skipped
IsPart(part) == ~AtMostOneChar(Strip(part))
TextsOfParts(parts) ==
    Concat([k \in 1..Len(parts) |-> TextsOfPart(CleanPart(parts[k]))])
TextsOfSkill(skill) == TextsOfParts(SelectSeq(PartsOf(Strip(skill)), IsPart))

\* every text normalize is called with, in the order of the calls
ListTexts(skills) ==
    Concat([k \in 1..Len(skills) |->
               IF KeptSkill(skills[k]) THEN TextsOfSkill(skills[k]) ELSE <<>>])

\* lines 148-150
stop_words == {"and", "or", "with", "using", "in", "on", "for", "to", "of", "the", "a", "an"}
IsStopWord(s) == Len(s) = 1 /\ LowerTok(s[1]) \in stop_words

\* the order of Python's strings (by code point) on the tokens of the model
TokenOrder ==
    <<Space, "!", "&", "(", ")", "*", ",", "-", ".", "/", "2022", ":", "Acme", "Alphabet",
      "C", "GOOG", "Google", "MSc", "Master", "SA", "SKILLS", "Science", "Skills",
      "Technologies", "The", "Tools",
      "and", "google", "of", "the", "x", "|", "endash", "emdash", "bullet">>
Rank(t) == CHOOSE k \in 1..Len(TokenOrder) : TokenOrder[k] = t
RECURSIVE Before(_, _)
Before(a, b) ==
    IF a = <<>> THEN b # <<>>
    ELSE IF b = <<>> THEN FALSE
    ELSE IF a[1] = b[1] THEN Before(Tail(a), Tail(b))
    ELSE Rank(a[1]) < Rank(b[1])

\* sorted(list(normalized_skills))
RECURSIVE Sorted(_)
Least(names) == CHOOSE n \in names : \A m \in names \ {n} : Before(n, m)
SortedFrom(names, least) == <<least>> \o Sorted(names \ {least})
Sorted(names) == IF names = {} THEN <<>> ELSE SortedFrom(names, Least(names))

\* the texts in the order of the calls, each once: the list without sorted()
RECURSIVE Unique(_)
Unique(list) ==
    IF list = <<>> THEN <<>>
    ELSE Append(SelectSeq(Unique(SubSeq(list, 1, Len(list) - 1)),
                          LAMBDA n : n # list[Len(list)]),
                list[Len(list)])

\* lines 133-135, 142-147: what normalize returns is added unless it is empty
NormalizedTexts(texts, mapping, fuzzy) ==
    SelectSeq([k \in 1..Len(texts) |-> SkillNormalize(texts[k], mapping, fuzzy)],
              LAMBDA n : n # Blank /\ ~IsStopWord(n))
SetOf(list) == {list[k] : k \in 1..Len(list)}

normalize_list_unsorted(skills, mapping, fuzzy) ==
    Unique(NormalizedTexts(ListTexts(skills), mapping, fuzzy))
normalize_list(skills, mapping, fuzzy) ==
    Sorted(SetOf(NormalizedTexts(ListTexts(skills), mapping, fuzzy)))

\* the texts normalize_list hands to extractOne
RECURSIVE UnionOf(_)
UnionOf(sets) == IF sets = <<>> THEN {} ELSE Head(sets) \cup UnionOf(Tail(sets))
ListFuzzyCallsOf(texts, mapping) ==
    UnionOf([k \in 1..Len(texts) |-> SkillFuzzyCalls(texts[k], mapping)])
ListFuzzyCalls(skills, mapping) == ListFuzzyCallsOf(ListTexts(skills), mapping)

NormalizeListCall ==
    /\ nm_pc = "call" /\ nm_fn = "SkillNormalizer.normalize_list"
    /\ \E skills \in {NormArg} :
          \E f \in Oracles(ListFuzzyCalls(skills, nm_mapping), Index(nm_mapping), nm_fuzzy) :
             NormReturn(normalize_list(skills, nm_mapping, f), f @@ nm_fuzzy)

\* a second call, with the terms of the first in another order or repeated
MaxSkills == 2
Rearranged(skills) ==
    {again \in SeqUpTo(SetOf(skills), Len(skills) + 1) :
        SetOf(again) = SetOf(skills) /\ again # skills}
NormalizeListAgain ==
    /\ nm_pc = "return" /\ nm_fn = "SkillNormalizer.normalize_list"
    /\ Len(nm_calls) = 1
    /\ \E again \in Rearranged(nm_calls[1].arg) :
          nm_calls' = Append(nm_calls, [arg |-> again, result |-> <<>>])
    /\ nm_pc' = "call"
    /\ UNCHANGED <<nm_fn, nm_mapping, nm_companies, nm_fuzzy, notNormVars>>

ListSkills ==
    { <<"Google">>, <<"google">>, <<"Acme">>, <<"x">>, <<"2022">>, <<"The">>,
      <<"-", Space, "x">>, <<Space, "Acme", Space>>, Blank,
      <<"Skills", ":", Space, "Google", ",", Space, "Acme">>,
      <<"Tools", ":", Space, "GOOG", Space, "and", Space, "The">>,
      <<"C", Space, "(", "GOOG", ",", Space, "x", ")">> }
ListMappings == {<<>>, CasedMapping}

InitList ==
    /\ PipelineIdle
    /\ ExtraIdle
    /\ DateIdle
    /\ LoadIdle
    /\ BuildIdle
    /\ nm_pc = "call"
    /\ nm_fn = "SkillNormalizer.normalize_list"
    /\ nm_mapping \in ListMappings
    /\ nm_companies = <<>>
    /\ nm_fuzzy = EmptyDict
    /\ nm_calls \in {<<[arg |-> skills, result |-> <<>>]>> :
                       skills \in SeqUpTo(ListSkills, MaxSkills)}

NextList ==
    \/ NormalizeListCall
    \/ NormalizeListAgain

SpecList == InitList /\ [][NextList]_vars

\* ---------------------------------------------------------------------------
\* Construction of the normalizers and of the pipeline: what each
\* configuration file is loaded as, and what the constructor raises.
\* A file is present and well formed ("ok"), absent ("missing") or present
\* with text that is not JSON, or not YAML ("malformed").
\* ---------------------------------------------------------------------------
FileStates == {"ok", "missing", "malformed"}

\* what a call returned: the exception it raised, or None and its value
Returned(value) == [raised |-> None, value |-> value]
Raises(exception) == [raised |-> exception, value |-> <<>>]

\* the parsed content of a well-formed file, and the part of it under a key
Content(path) == <<path>>
EmptyTable == <<>>

\* open(path, 'r') followed by json.load(f)
JsonLoad(files, path) ==
    IF files[path] = "missing" THEN Raises("FileNotFoundError")
    ELSE IF files[path] = "malformed" THEN Raises("JSONDecodeError")
    ELSE Returned(Content(path))

\* open(path, 'r') followed by yaml.safe_load(f)
YamlLoad(files, path) ==
    IF files[path] = "missing" THEN Raises("FileNotFoundError")
    ELSE IF files[path] = "malformed" THEN Raises("YAMLError")
    ELSE Returned(Content(path))

\* try: ... except <caught>: return {}
Except(outcome, caught) ==
    IF outcome.raised \in caught THEN Returned(EmptyTable) ELSE outcome

\* patterns.get(key, {}) of a loaded patterns file
GetKey(outcome, key) ==
    IF outcome.raised = None THEN Returned(Append(outcome.value, key)) ELSE outcome

AnyException == {"FileNotFoundError", "JSONDecodeError", "YAMLError"}

\* SkillNormalizer._load_ontology: a missing file gives {}, a JSONDecodeError
\* is raised again
SkillLoadOntologySoft(files, path) ==
    Except(JsonLoad(files, path), {"FileNotFoundError", "JSONDecodeError"})
SkillLoadOntology(files, path) ==
    Except(JsonLoad(files, path), {"FileNotFoundError"})

\* SkillNormalizer._load_patterns
SkillLoadPatterns(files, path) ==
    Except(GetKey(YamlLoad(files, path), "skill_patterns"), AnyException)

\* the first exception raised by a sequence of calls, None when none raised
FirstRaised(outcomes) ==
    IF \A k \in 1..Len(outcomes) : outcomes[k].raised = None THEN None
    ELSE outcomes[CHOOSE k \in 1..Len(outcomes) :
                      /\ outcomes[k].raised # None
                      /\ \A j \in 1..(k - 1) : outcomes[j].raised = None].raised

\* an object under construction: the exception that ended the constructor,
\* or None and the attributes it assigned
Constructed(outcomes, attrs) ==
    IF FirstRaised(outcomes) # None
    THEN [raised |-> FirstRaised(outcomes), attrs |-> EmptyDict]
    ELSE [raised |-> None, attrs |-> attrs]

\* SkillNormalizer.__init__
SkillAttrs(ontology, patterns) ==
    [ontology |-> ontology.value, skill_patterns |-> patterns.value]
SkillNormalizerOf(ontology, patterns) ==
    Constructed(<<ontology, patterns>>, SkillAttrs(ontology, patterns))
SkillNormalizerInit(files, ontology_path, patterns_path) ==
    SkillNormalizerOf(SkillLoadOntology(files, ontology_path),
                      SkillLoadPatterns(files, patterns_path))

\* EducationNormalizer._load_patterns and _load_mapping
EducationLoadPatterns(files, path) ==
    Except(GetKey(YamlLoad(files, path), "education_patterns"), AnyException)
EducationLoadMapping(files, file_path) ==
    IF files[file_path] = "missing" THEN Returned(EmptyTable)
    ELSE Except(JsonLoad(files, file_path), {"FileNotFoundError", "JSONDecodeError"})

\* EducationNormalizer.__init__
EducationAttrs(patterns, institutions, degrees, fields) ==
    [education_patterns |-> patterns.value,
     institution_mapping |-> institutions.value,
     degree_mapping |-> degrees.value,
     field_mapping |-> fields.value]
EducationNormalizerOf(patterns, institutions, degrees, fields) ==
    Constructed(<<patterns, institutions, degrees, fields>>,
                EducationAttrs(patterns, institutions, degrees, fields))
EducationNormalizerInit(files, patterns_path) ==
    EducationNormalizerOf(EducationLoadPatterns(files, patterns_path),
                          EducationLoadMapping(files, "institutions.json"),
                          EducationLoadMapping(files, "degrees.json"),
                          EducationLoadMapping(files, "fields.json"))

\* ExperienceNormalizer._load_patterns and _load_mapping
ExperienceLoadPatterns(files, path) == Except(YamlLoad(files, path), AnyException)
ExperienceLoadMapping(files, file_path) ==
    Except(JsonLoad(files, file_path), {"FileNotFoundError", "JSONDecodeError"})

\* ExperienceNormalizer.__init__: it builds a SkillNormalizer of its own on
\* the ontology at the relative path data/ontology/skills_ontology.json
ExperienceAttrs(skill_normalizer, patterns, companies, titles) ==
    [ontology |-> Get(skill_normalizer.attrs, "ontology", EmptyTable),
     patterns |-> patterns.value,
     company_mapping |-> companies.value,
     title_mapping |-> titles.value,
     position_mapping |-> titles.value]
ExperienceNormalizerOf(skill_normalizer, patterns, companies, titles) ==
    Constructed(<<skill_normalizer, patterns, companies, titles>>,
                ExperienceAttrs(skill_normalizer, patterns, companies, titles))
ExperienceNormalizerInit(files, patterns_path) ==
    ExperienceNormalizerOf(
        SkillNormalizerInit(files, "data/ontology/skills_ontology.json", patterns_path),
        ExperienceLoadPatterns(files, patterns_path),
        ExperienceLoadMapping(files, "companies.json"),
        ExperienceLoadMapping(files, "titles.json"))

\* CVPipeline._initialize_components: the rules file is opened and parsed
\* with no handler of its own, the components are built in turn, and any
\* exception is raised again as a ConfigError
PipelineAttrs(rules, skill, education, experience) ==
    [rules |-> rules.value,
     skill_normalizer |-> skill.attrs,
     education_normalizer |-> education.attrs,
     experience_normalizer |-> experience.attrs]
AsConfigError(object) ==
    IF object.raised = None THEN object
    ELSE [raised |-> "ConfigError", attrs |-> EmptyDict]
InitializeComponentsOf(rules, skill, education, experience) ==
    AsConfigError(Constructed(<<rules, skill, education, experience>>,
                              PipelineAttrs(rules, skill, education, experience)))
InitializeComponents(files) ==
    InitializeComponentsOf(
        YamlLoad(files, "parsing_rules.yaml"),
        SkillNormalizerInit(files, "skills_ontology.json", "patterns.yaml"),
        EducationNormalizerInit(files, "config/patterns.yaml"),
        ExperienceNormalizerInit(files, "config/patterns.yaml"))

\* the files each constructor reads
SkillFiles == {"skills_ontology.json", "patterns.yaml"}
EducationFiles == {"config/patterns.yaml", "institutions.json", "degrees.json", "fields.json"}
ExperienceFiles == {"data/ontology/skills_ontology.json", "config/patterns.yaml",
                    "companies.json", "titles.json"}
PipelineFiles == {"parsing_rules.yaml"} \cup SkillFiles \cup EducationFiles \cup ExperienceFiles
FilesOf(fn) ==
    CASE fn = "SkillNormalizer" -> SkillFiles
      [] fn = "EducationNormalizer" -> EducationFiles
      [] fn = "ExperienceNormalizer" -> ExperienceFiles
      [] fn = "CVPipeline" -> PipelineFiles

ConstructorReturn(object) ==
    /\ ld_pc' = "done"
    /\ ld_raised' = object.raised
    /\ ld_loaded' = object.attrs
    /\ UNCHANGED <<ld_fn, ld_files, notLoadVars>>

SkillNormalizerNew ==
    /\ ld_pc = "new"
    /\ ld_fn = "SkillNormalizer"
    /\ ConstructorReturn(SkillNormalizerInit(ld_files, "skills_ontology.json", "patterns.yaml"))

EducationNormalizerNew ==
    /\ ld_pc = "new"
    /\ ld_fn = "EducationNormalizer"
    /\ ConstructorReturn(EducationNormalizerInit(ld_files, "config/patterns.yaml"))

ExperienceNormalizerNew ==
    /\ ld_pc = "new"
    /\ ld_fn = "ExperienceNormalizer"
    /\ ConstructorReturn(ExperienceNormalizerInit(ld_files, "config/patterns.yaml"))

CVPipelineNew ==
    /\ ld_pc = "new"
    /\ ld_fn = "CVPipeline"
    /\ ConstructorReturn(InitializeComponents(ld_files))

Constructors == {"SkillNormalizer", "EducationNormalizer", "ExperienceNormalizer", "CVPipeline"}

InitLoad ==
    /\ PipelineIdle
    /\ ExtraIdle
    /\ DateIdle
    /\ NormIdle
    /\ BuildIdle
    /\ ld_pc = "new"
    /\ ld_fn \in Constructors
    /\ ld_files \in [FilesOf(ld_fn) -> FileStates]
    /\ ld_loaded = EmptyDict
    /\ ld_raised = None

NextLoad ==
    \/ SkillNormalizerNew
    \/ EducationNormalizerNew
    \/ ExperienceNormalizerNew
    \/ CVPipelineNew

SpecLoad == InitLoad /\ [][NextLoad]_vars

\* ---------------------------------------------------------------------------
\* CVPipeline.build_resume: the normalized data is handed to the pydantic
\* model Resume in one constructor call.  A value is modelled by its Python
\* type; an entry is a function from the keys it has to the types of their
\* values.
\* ---------------------------------------------------------------------------
\* models/resume.py: the annotation of each field.  A field annotated
\* Optional[str] = None may be absent or None; every other field is required.
ContactModel ==
    [name |-> "str", phone |-> "str", email |-> "str", linkedin |-> "str", github |-> "str"]
ExperienceModel ==
    [position |-> "str", company |-> "str", location |-> "str", start_date |-> "str",
     end_date |-> "str", description |-> "str", technologies |-> "List[str]"]
EducationModel ==
    [institution |-> "str", degree |-> "str", field_of_study |-> "str",
     start_date |-> "Optional[str]", end_date |-> "Optional[str]",
     description |-> "str", achievements |-> "List[str]"]
ProjectModel == ExperienceModel

\* pydantic's validation of one field of an entry
ValidField(entry, field, annotation) ==
    CASE annotation = "Optional[str]" ->
             field \notin DOMAIN entry \/ entry[field] \in {"str", "NoneType"}
      [] annotation = "List[str]" -> field \in DOMAIN entry /\ entry[field] = "list"
      [] OTHER -> field \in DOMAIN entry /\ entry[field] = "str"
Validates(entry, model) == \A field \in DOMAIN model : ValidField(entry, field, model[field])
AllValidate(list, model) == \A k \in 1..Len(list) : Validates(list[k], model)

\* the model object made of a valid entry: the declared fields, an absent
\* optional field as None, keys that are not fields ignored
Parsed(entry, model) ==
    [field \in DOMAIN model |-> IF field \in DOMAIN entry THEN entry[field] ELSE "NoneType"]
ParsedList(list, model) == [k \in 1..Len(list) |-> Parsed(list[k], model)]

NoResume == [raised |-> None, resume |-> EmptyDict]

\* lines 525-538: Resume(...) validates every section at once, and any
\* exception is raised again as ParserError
ResumeModel(normalized_data) ==
    [contact |-> Parsed(normalized_data.contact, ContactModel),
     education |-> ParsedList(normalized_data.education, EducationModel),
     experience |-> ParsedList(normalized_data.experience, ExperienceModel),
     projects |-> ParsedList(normalized_data.projects, ProjectModel)]
ResumeValidates(normalized_data) ==
    /\ Validates(normalized_data.contact, ContactModel)
    /\ AllValidate(normalized_data.education, EducationModel)
    /\ AllValidate(normalized_data.experience, ExperienceModel)
    /\ AllValidate(normalized_data.projects, ProjectModel)
build_resume(normalized_data) ==
    IF ResumeValidates(normalized_data)
    THEN [raised |-> None, resume |-> ResumeModel(normalized_data)]
    ELSE [raised |-> "ParserError", resume |-> EmptyDict]

\* process_cv, lines 106-114: the Resume that build_resume returns is
\* returned, and the exception it raises is raised again
BuildResumeCall ==
    /\ br_pc = "call"
    /\ br_pc' = "done"
    /\ br_result' = build_resume(br_data)
    /\ UNCHANGED <<br_data, notBuildVars>>

\* the entries build_resume is given.  _parse_contact returns the five keys
\* as strings.
ParsedContact ==
    [name |-> "str", phone |-> "str", email |-> "str", linkedin |-> "str", github |-> "str"]
\* EducationNormalizer.normalize gives every entry these seven keys; degree
\* is whatever the raw entry held, None included
EducationEntry(degree) ==
    [institution |-> "str", degree |-> degree, field_of_study |-> "str",
     start_date |-> "str", end_date |-> "str", description |-> "str",
     achievements |-> "list"]
\* an education entry without dates, as a caller of build_resume may give it
UndatedEducation ==
    [institution |-> "str", degree |-> "str", field_of_study |-> "str",
     description |-> "str", achievements |-> "list"]
\* ExperienceNormalizer.normalize gives every entry these four keys, and
\* with dates the two dates and the duration
NormalizedExperience ==
    [company |-> "str", position |-> "str", description |-> "str", technologies |-> "list"]
DatedExperience ==
    [company |-> "str", position |-> "str", description |-> "str", technologies |-> "list",
     start_date |-> "str", end_date |-> "str", duration_months |-> "int"]
\* _parse_projects gives every project the seven keys of the model, and an
\* experience entry with the same keys is valid
FullEntry ==
    [position |-> "str", company |-> "str", location |-> "str", start_date |-> "str",
     end_date |-> "str", description |-> "str", technologies |-> "list"]
NoTechnologies ==
    [position |-> "str", company |-> "str", location |-> "str", start_date |-> "str",
     end_date |-> "str", description |-> "str", technologies |-> "NoneType"]

EducationShapes == {EducationEntry("str"), EducationEntry("NoneType"), UndatedEducation}
ExperienceShapes == {NormalizedExperience, DatedExperience, FullEntry}
ProjectShapes == {FullEntry, NoTechnologies}
MaxEntries == 2

InitBuild ==
    /\ PipelineIdle
    /\ ExtraIdle
    /\ DateIdle
    /\ NormIdle
    /\ LoadIdle
    /\ br_pc = "call"
    /\ br_result = NoResume
    /\ br_data \in [contact : {ParsedContact},
                    education : SeqUpTo(EducationShapes, MaxEntries),
                    experience : SeqUpTo(ExperienceShapes, MaxEntries),
                    projects : SeqUpTo(ProjectShapes, 1)]

NextBuild == BuildResumeCall

SpecBuild == InitBuild /\ [][NextBuild]_vars

\* ================================================ the SkillNormalizer object
\* The object keeps three fields, ontology, skill_index and lower_index, and
\* offers normalize, _get_canonical and add_custom_mapping.

\* _create_skill_index: the names in file order, each once
RECURSIVE CreateSkillIndexFrom(_, _)
CreateSkillIndexFrom(flat, index) ==
    IF flat = <<>> THEN index
    ELSE CreateSkillIndexFrom(Tail(flat),
                              IF InList(Head(flat), index) THEN index
                              ELSE Append(index, Head(flat)))
CreateSkillIndex(ontology) == CreateSkillIndexFrom(Flatten(ontology), <<>>)

\* line 17: {s.lower(): s for s in self.skill_index}
RECURSIVE LowerIndexFrom(_, _)
LowerIndexFrom(index, dict) ==
    IF index = <<>> THEN dict
    ELSE LowerIndexFrom(Tail(index), Put(dict, Lower(Head(index)), Head(index)))
CreateLowerIndex(index) == LowerIndexFrom(index, EmptyDict)

SkillObject(ontology, index, lower) ==
    [ontology |-> ontology, skill_index |-> index, lower_index |-> lower]

\* `canonical in self.ontology` and self.ontology[canonical]
HasKey(ontology, canonical) ==
    \E k \in 1..Len(ontology) : ontology[k].canonical = canonical
VariantsOf(ontology, canonical) ==
    ontology[CHOOSE k \in 1..Len(ontology) : ontology[k].canonical = canonical].variants
AppendVariant(ontology, variant, canonical) ==
    [k \in 1..Len(ontology) |->
        IF ontology[k].canonical = canonical
        THEN MapEntry(canonical, Append(ontology[k].variants, variant))
        ELSE ontology[k]]

\* lines 166-168 and 172-174: the name enters the index unless it is there
IndexName(obj, name) ==
    IF InList(name, obj.skill_index) THEN obj
    ELSE [obj EXCEPT !.skill_index = Append(@, name),
                     !.lower_index = Put(@, Lower(name), name)]
\* the same without the test `not in self.skill_index`
IndexNameAlways(obj, name) ==
    [obj EXCEPT !.skill_index = Append(@, name),
                !.lower_index = Put(@, Lower(name), name)]

\* lines 164-168
AddCanonical(obj, canonical) ==
    IF HasKey(obj.ontology, canonical) THEN obj
    ELSE IndexName([obj EXCEPT !.ontology = Append(@, MapEntry(canonical, <<>>))],
                   canonical)
\* lines 170-174, once the canonical is a key
AddVariant(obj, variant, canonical) ==
    IF InList(variant, VariantsOf(obj.ontology, canonical)) THEN obj
    ELSE IndexName([obj EXCEPT !.ontology = AppendVariant(@, variant, canonical)],
                   variant)
AddVariantAlways(obj, variant, canonical) ==
    IF InList(variant, VariantsOf(obj.ontology, canonical)) THEN obj
    ELSE IndexNameAlways([obj EXCEPT !.ontology = AppendVariant(@, variant, canonical)],
                         variant)

add_custom_mapping_unchecked(obj, variant, canonical) ==
    AddVariantAlways(AddCanonical(obj, canonical), variant, canonical)
add_custom_mapping(obj, variant, canonical) ==
    AddVariant(AddCanonical(obj, canonical), variant, canonical)

\* lines 67-81 on the object, for the cleaned skill and what extractOne returned
MatchSkillOn(obj, skill, found) ==
    IF Lower(skill) \in DOMAIN obj.lower_index
    THEN GetCanonical(obj.lower_index[Lower(skill)], obj.ontology)
    ELSE IF found # NoName THEN GetCanonical(found, obj.ontology)
    ELSE skill
NormalizeOn(obj, skill, found) ==
    IF skill = Blank THEN Blank
    ELSE IF Strip(skill) = Blank THEN skill
    ELSE MatchSkillOn(obj, CleanSkill(skill), found)
\* what extractOne may return for the skill
FoundOn(obj, skill) ==
    IF Strip(skill) = Blank \/ Lower(CleanSkill(skill)) \in DOMAIN obj.lower_index
    THEN {NoName}
    ELSE FuzzyOutcomes(CleanSkill(skill), SetOf(obj.skill_index))

\* a normalize that remembers what it returned
NormalizeRemembers(obj, skill, result) ==
    IF result = Blank \/ Lower(skill) \in DOMAIN obj.lower_index THEN obj
    ELSE [obj EXCEPT !.lower_index = Put(@, Lower(skill), result)]
\* lines 47-81: normalize writes no field of the object
NormalizeKeeps(obj, skill, result) == obj

Self == SkillObject(sn_ontology, sn_skill_index, sn_lower_index)
SkillCall(op, args, result) == [op |-> op, args |-> args, result |-> result]
SkillReturn(obj, call) ==
    /\ sn_ontology' = obj.ontology
    /\ sn_skill_index' = obj.skill_index
    /\ sn_lower_index' = obj.lower_index
    /\ sn_calls' = Append(sn_calls, call)
    /\ UNCHANGED <<sn_pc, sn_loaded, notSkillVars>>

MaxCalls == 3
ObjectNames == {<<"Google">>, <<"google">>, <<"Acme">>}

AddCustomMapping ==
    /\ sn_pc = "ready" /\ Len(sn_calls) < MaxCalls
    /\ \E variant \in ObjectNames, canonical \in ObjectNames :
          SkillReturn(add_custom_mapping(Self, variant, canonical),
                      SkillCall("add_custom_mapping", <<variant, canonical>>, NoName))

NormalizeOnObject ==
    /\ sn_pc = "ready" /\ Len(sn_calls) < MaxCalls
    /\ \E skill \in ObjectNames \cup {<<"GOOG">>} :
          \E found \in FoundOn(Self, skill) :
             \E result \in {NormalizeOn(Self, skill, found)} :
                SkillReturn(NormalizeKeeps(Self, skill, result),
                            SkillCall("normalize", <<skill>>, result))

GetCanonicalOnObject ==
    /\ sn_pc = "ready" /\ Len(sn_calls) < MaxCalls
    /\ \E skill \in ObjectNames :
          SkillReturn(Self, SkillCall("_get_canonical", <<skill>>,
                                      GetCanonical(skill, sn_ontology)))

\* normalize_list on the object: lines 133-155 for the texts of the list, with
\* what extractOne returned for each text
NormalizedTextsOn(obj, texts, found) ==
    SelectSeq([k \in 1..Len(texts) |-> NormalizeOn(obj, texts[k], found[texts[k]])],
              LAMBDA n : n # Blank /\ ~IsStopWord(n))
NormalizeListOn(obj, texts, found) == Sorted(SetOf(NormalizedTextsOn(obj, texts, found)))
FoundAllOn(obj, texts) ==
    {found \in [SetOf(texts) -> SetOf(obj.skill_index) \cup {NoName}] :
        \A t \in SetOf(texts) : found[t] \in FoundOn(obj, t)}
ObjectLists == { << <<"Skills", ":", Space, "Google", ",", Space, "Acme">>, <<"The">> >> }

NormalizeListOnObject ==
    /\ sn_pc = "ready" /\ Len(sn_calls) < MaxCalls
    /\ \E skills \in ObjectLists :
          \E texts \in {ListTexts(skills)} :
             \E found \in FoundAllOn(Self, texts) :
                SkillReturn(Self, SkillCall("normalize_list", skills,
                                            NormalizeListOn(Self, texts, found)))

\* a variant listed twice, and a canonical name that is a variant as well
RepeatedMapping ==
    << MapEntry(<<"Alphabet">>, << <<"Google">>, <<"Google">> >>),
       MapEntry(<<"Google">>, << <<"GOOG">>, <<"Alphabet">> >>) >>
ObjectOntologies == {<<>>, CasedMapping, RepeatedMapping}

InitSkill ==
    /\ FieldsIdle /\ DateIdle
    /\ PiiIdle /\ TextIdle /\ ConcIdle
    /\ sn_pc = "ready"
    /\ sn_loaded \in ObjectOntologies
    /\ sn_ontology = sn_loaded
    /\ sn_skill_index = CreateSkillIndex(sn_loaded)
    /\ sn_lower_index = CreateLowerIndex(sn_skill_index)
    /\ sn_calls = <<>>

NextSkill ==
    \/ AddCustomMapping
    \/ NormalizeOnObject
    \/ GetCanonicalOnObject
    \/ NormalizeListOnObject

SpecSkill == InitSkill /\ [][NextSkill]_vars

\* ============================================================= PIIAnonymizer
\* A text is a sequence of pieces.  A PII value is one piece; the analyzer
\* (presidio, with the regular expressions of the configuration) finds each
\* of them with its entity type.  A replacement is several pieces.

EntityType(piece) ==
    CASE piece = "johndoe@example.com" -> "EMAIL"
      [] piece = "janesmith@domain.com" -> "EMAIL"
      [] piece = "123-456-7890" -> "PHONE"
      [] piece = "123-45-6789" -> "SSN"
      [] OTHER -> None

\* line 31, 41: the results, sorted by start
AnalyzerResult(start, piece) == [start |-> start, entity_type |-> EntityType(piece)]
Analyze(text) ==
    SelectSeq([k \in 1..Len(text) |-> AnalyzerResult(k, text[k])],
              LAMBDA r : r.entity_type # None)

\* _hash_value: the first eight hex digits of sha256(value + salt), one name
\* for each value
HashValue(value) ==
    CASE value = "johndoe@example.com" -> "hash_of_johndoe"
      [] value = "janesmith@domain.com" -> "hash_of_janesmith"
      [] value = "123-456-7890" -> "hash_of_phone"
      [] value = "123-45-6789" -> "hash_of_ssn"
      [] OTHER -> "hash_of_other"

\* lines 54-70
MaskEmail(value) ==
    CASE value = "johndoe@example.com" -> <<"j", "***", "@", "example.com">>
      [] value = "janesmith@domain.com" -> <<"j", "***", "@", "domain.com">>
      [] OTHER -> <<"[", "EMAIL", "_", "REDACTED", "]">>
MaskPhone(value) ==
    CASE value = "123-456-7890" -> <<"123", "***", "7890">>
      [] OTHER -> <<"[", "PHONE", "_", "REDACTED", "]">>
Mask(entity_type, value) ==
    IF entity_type = "EMAIL" THEN MaskEmail(value)
    ELSE IF entity_type = "PHONE" THEN MaskPhone(value)
    ELSE <<"[", entity_type, "_", "REDACTED", "]">>

\* lines 72-73: the number of results of the type so far, as text
CounterText(n) == CASE n = 1 -> "1" [] n = 2 -> "2" [] n = 3 -> "3" [] OTHER -> "4"
EntityCounter(results, k) ==
    Cardinality({j \in 1..k : results[j].entity_type = results[k].entity_type})

\* lines 47-74: the replacement of the k-th result
ReplacementOf(strategy, text, results, k) ==
    IF strategy = "hash"
    THEN <<"[", results[k].entity_type, "_", HashValue(text[results[k].start]), "]">>
    ELSE IF strategy = "mask"
    THEN Mask(results[k].entity_type, text[results[k].start])
    ELSE <<"[", results[k].entity_type, "_", CounterText(EntityCounter(results, k)), "]">>
Replacements(strategy, text, results) ==
    [k \in 1..Len(results) |-> ReplacementOf(strategy, text, results, k)]

\* line 76: operators[result.entity_type] is set for each result in turn, so
\* the last result of a type decides
LastOfType(results, entity_type) ==
    CHOOSE k \in 1..Len(results) :
        /\ results[k].entity_type = entity_type
        /\ \A j \in (k + 1)..Len(results) : results[j].entity_type # entity_type
OperatorsByType(results, replacements) ==
    [t \in {results[k].entity_type : k \in 1..Len(results)} |->
        replacements[LastOfType(results, t)]]

\* AnonymizerEngine.anonymize with "replace" operators: each span found gives
\* way to the new_value of the operator of its entity type
EngineAnonymize(text, operators) ==
    Concat([k \in 1..Len(text) |->
               IF EntityType(text[k]) = None THEN <<text[k]>>
               ELSE operators[EntityType(text[k])]])

\* lines 87-95: pii_map[replacement] = {...}; a key set again keeps its place
\* (the context is left out)
PiiInfo(replacement, entity_type, original) ==
    [replacement |-> replacement, type |-> entity_type, original |-> original]
HasReplacement(pii_map, replacement) ==
    \E k \in 1..Len(pii_map) : pii_map[k].replacement = replacement
SetInfo(pii_map, info) ==
    IF HasReplacement(pii_map, info.replacement)
    THEN [k \in 1..Len(pii_map) |->
             IF pii_map[k].replacement = info.replacement THEN info ELSE pii_map[k]]
    ELSE Append(pii_map, info)
RECURSIVE PiiMapFrom(_, _, _, _)
PiiMapFrom(text, results, replacements, k) ==
    IF k = 0 THEN <<>>
    ELSE SetInfo(PiiMapFrom(text, results, replacements, k - 1),
                 PiiInfo(replacements[k], results[k].entity_type, text[results[k].start]))
PiiMap(text, results, replacements) ==
    PiiMapFrom(text, results, replacements, Len(results))

\* lines 29-101: the text returned and the map
Anonymized(text, pii_map) == [text |-> text, pii_map |-> pii_map]
AnonymizeWith(text, results, replacements) ==
    Anonymized(EngineAnonymize(text, OperatorsByType(results, replacements)),
               PiiMap(text, results, replacements))
anonymize(strategy, text) ==
    AnonymizeWith(text, Analyze(text), Replacements(strategy, text, Analyze(text)))

\* str.replace(old, new), old not empty
RECURSIVE StrReplace(_, _, _)
StartsWith(text, old) == Len(old) <= Len(text) /\ SubSeq(text, 1, Len(old)) = old
StrReplace(text, old, new) ==
    IF text = <<>> THEN <<>>
    ELSE IF StartsWith(text, old)
    THEN new \o StrReplace(SubSeq(text, Len(old) + 1, Len(text)), old, new)
    ELSE <<Head(text)>> \o StrReplace(Tail(text), old, new)

\* lines 121-124
RECURSIVE RestoreWith(_, _)
RestoreWith(text, pii_map) ==
    IF pii_map = <<>> THEN text
    ELSE RestoreWith(StrReplace(text, Head(pii_map).replacement, <<Head(pii_map).original>>),
                     Tail(pii_map))
\* line 117: self.pii_cache.get(anonymized_text, self.current_pii_map)
CacheGet(cache, key, default) == IF key \in DOMAIN cache THEN cache[key] ELSE default
restore_original(cache, current, anonymized_text) ==
    RestoreWith(anonymized_text, CacheGet(cache, anonymized_text, current))

Strategies == {"hash", "mask", "token"}
MaxPieces == 3
MaxRuns == 2
PiiPieces == {"Contact", "johndoe@example.com", "janesmith@domain.com",
              "123-456-7890", "123-45-6789"}
PiiTexts == SeqUpTo(PiiPieces, MaxPieces)

AnonymizeCall ==
    /\ pii_pc = "call"
    /\ \E result \in {anonymize(replacement_strategy, pii_text)} :
          /\ pii_anonymized' = result
          /\ pii_cache' = Put(pii_cache, result.text, result.pii_map)
          /\ current_pii_map' = result.pii_map
    /\ pii_runs' = Append(pii_runs, pii_text)
    /\ pii_pc' = "anonymized"
    /\ UNCHANGED <<replacement_strategy, pii_text, pii_restored, notPiiVars>>

RestoreOriginalCall ==
    /\ pii_pc = "anonymized"
    /\ pii_restored' = restore_original(pii_cache, current_pii_map, pii_anonymized.text)
    /\ pii_pc' = "restored"
    /\ UNCHANGED <<replacement_strategy, pii_cache, current_pii_map, pii_text,
                   pii_anonymized, pii_runs, notPiiVars>>

\* another text goes through the same object
AnonymizeNext ==
    /\ pii_pc = "restored" /\ Len(pii_runs) < MaxRuns
    /\ pii_text' \in PiiTexts
    /\ pii_pc' = "call"
    /\ UNCHANGED <<replacement_strategy, pii_cache, current_pii_map, pii_anonymized,
                   pii_restored, pii_runs, notPiiVars>>

InitPii ==
    /\ FieldsIdle /\ DateIdle
    /\ SkillIdle /\ TextIdle /\ ConcIdle
    /\ replacement_strategy \in Strategies
    /\ pii_cache = EmptyDict
    /\ current_pii_map = <<>>
    /\ pii_pc = "call"
    /\ pii_text \in PiiTexts
    /\ pii_anonymized = [text |-> <<>>, pii_map |-> <<>>]
    /\ pii_restored = <<>>
    /\ pii_runs = <<>>

NextPii ==
    \/ AnonymizeCall
    \/ RestoreOriginalCall
    \/ AnonymizeNext

SpecPii == InitPii /\ [][NextPii]_vars

\* ================================================================ TextParser
\* lines 47-54: heading_pattern, for a stripped line: one of the section
\* names, whatever the letter case, then an optional colon
HeadingPhrases ==
    { <<"contact">>, <<"contact", "info">>, <<"summary">>, <<"professional", "summary">>,
      <<"profile">>, <<"objective">>, <<"work", "experience">>,
      <<"professional", "experience">>, <<"employment", "experience">>,
      <<"experience">>, <<"career", "history">>, <<"career", "path">>,
      <<"education">>, <<"academic", "education">>, <<"qualifications">>,
      <<"degrees">>, <<"training">>, <<"certification">>, <<"certifications">>,
      <<"skills">>, <<"technical", "skills">>, <<"competencies">>, <<"expertise">>,
      <<"projects">>, <<"key", "projects">>, <<"portfolio">>,
      <<"personal", "details">>, <<"about", "me">> }
WithoutColon(stripped) ==
    IF stripped # <<>> /\ stripped[Len(stripped)] = ":"
    THEN Strip(SubSeq(stripped, 1, Len(stripped) - 1))
    ELSE stripped
WordsOf(text) == SelectSeq(Lower(text), LAMBDA t : t # Space)
IsHeadingLine(stripped) == WordsOf(WithoutColon(stripped)) \in HeadingPhrases

\* _create_text_block and _create_heading_block (the position is left out)
CreateTextBlock(text) == [text |-> text, type |-> "text", size |-> 11]
CreateHeadingBlock(text) == [text |-> text, type |-> "heading", size |-> 14]

\* the loop state: blocks and current_block
Structure(blocks, current_block) == [blocks |-> blocks, current_block |-> current_block]
\* lines 59-61, 66-68, 73-74
FlushBlock(st) ==
    IF st.current_block # <<>>
    THEN Structure(Append(st.blocks, CreateTextBlock(Join(st.current_block))), <<>>)
    ELSE st
\* a loop body that lets a blank line pass
StructureStepOverBlank(st, line) ==
    IF Strip(line) = Blank THEN st
    ELSE IF IsHeadingLine(Strip(line))
    THEN Structure(Append(FlushBlock(st).blocks, CreateHeadingBlock(<<Strip(line)>>)), <<>>)
    ELSE Structure(st.blocks, Append(st.current_block, line))
\* lines 56-71: the loop body
StructureStep(st, line) ==
    IF Strip(line) = Blank THEN FlushBlock(st)
    ELSE IF IsHeadingLine(Strip(line))
    THEN Structure(Append(FlushBlock(st).blocks, CreateHeadingBlock(<<Strip(line)>>)), <<>>)
    ELSE Structure(st.blocks, Append(st.current_block, line))
RECURSIVE StructureLoop(_, _)
StructureLoop(st, rest) ==
    IF rest = <<>> THEN st ELSE StructureLoop(StructureStep(st, Head(rest)), Tail(rest))
structure_content(raw_lines) ==
    FlushBlock(StructureLoop(Structure(<<>>, <<>>), raw_lines)).blocks

MaxTextLines == 4
TextLines ==
    { <<"EDUCATION">>, <<Space, "Work", Space, "Experience", ":", Space>>,
      <<"Python">>, <<Space, "Acme">>, <<"Education", Space, "MIT">>,
      Blank, <<Space>> }

StructureContentCall ==
    /\ tp_pc = "call"
    /\ tp_blocks' = structure_content(tp_lines)
    /\ tp_pc' = "return"
    /\ UNCHANGED <<tp_lines, notTextVars>>

\* the same parser is called again, on a text one line longer
StructureContentAgain ==
    /\ tp_pc = "return" /\ Len(tp_lines) < MaxTextLines
    /\ \E line \in TextLines : tp_lines' = Append(tp_lines, line)
    /\ tp_blocks' = <<>>
    /\ tp_pc' = "call"
    /\ UNCHANGED notTextVars

InitText ==
    /\ FieldsIdle /\ DateIdle
    /\ SkillIdle /\ PiiIdle /\ ConcIdle
    /\ tp_pc = "call"
    /\ tp_lines \in {<<line>> : line \in TextLines}
    /\ tp_blocks = <<>>

NextText ==
    \/ StructureContentCall
    \/ StructureContentAgain

SpecText == InitText /\ [][NextText]_vars

OthersIdle == DateIdle /\ NormIdle /\ LoadIdle /\ BuildIdle /\ ExtraIdle

InitDetect ==
    /\ \E cfg \in {CfgEmpty, CfgTest} : SectionDetectorInit(cfg)
    /\ OthersIdle
    /\ MatchIdle
    /\ EntIdle
    /\ ProjIdle
    /\ document \in Documents
    /\ d_pc = "start"
    /\ lines = <<>>
    /\ i = 0
    /\ sections = EmptyDict
    /\ section_keys = <<>>
    /\ current_section = None
    /\ current_content = <<>>
    /\ bi = 0
    /\ li = 0
    /\ placed = {}
    /\ activated = {}

NextDetect ==
    \/ DetectStart
    \/ RawLine
    \/ RawEnd
    \/ BlockNext
    \/ BlockLine
    \/ BlocksEnd
    \/ DetectReturn

SpecDetect == InitDetect /\ [][NextDetect]_vars

\* ---- one call of _match_section_heading on a drawn text
MatchTokens == {"Education", "EDUCATION", "Skills", "Work", "History", "Academic", "Acme", ":"}
MatchTexts == SeqUpTo(MatchTokens, MaxWords)
FontSizes == {8, 12}

MatchCall ==
    /\ m_pc = "call"
    /\ m_result' = match_section_heading(m_text, m_font)
    /\ m_stage' = MatchStage(section_rules, confidence_threshold, m_text)
    /\ m_pc' = "return"
    /\ UNCHANGED <<m_text, m_font, objVars, otherVars, detVars, entVars, projVars>>

InitMatch ==
    /\ \E cfg \in Configs : SectionDetectorInit(cfg)
    /\ OthersIdle
    /\ DetectIdle
    /\ EntIdle
    /\ ProjIdle
    /\ m_pc = "call"
    /\ m_text \in MatchTexts
    /\ m_font \in FontSizes
    /\ m_result = None
    /\ m_stage = "call"

NextMatch == MatchCall

SpecMatch == InitMatch /\ [][NextMatch]_vars

\* ---- one call of an entry extractor on a drawn text
InitEntries ==
    /\ SectionDetectorInit(CfgEmpty)
    /\ OthersIdle
    /\ MatchIdle
    /\ DetectIdle
    /\ ProjIdle
    /\ e_site \in Sites
    /\ e_lines \in SiteTexts(e_site)
    /\ e_pc = "scan"
    /\ ei = 0
    /\ next_idx = 0
    /\ entries = <<>>
    /\ current_entry = NoEntry
    /\ current_lines = <<>>
    /\ normalized = <<>>
    /\ e_opened = {}

NextEntries ==
    \/ PSEScan
    \/ PSELook
    \/ PSEFinish
    \/ NormalizeEducation
    \/ PEScan
    \/ PELook
    \/ PEFinish
    \/ EEEmpty
    \/ EduLine
    \/ ExpLine
    \/ EEFinish

SpecEntries == InitEntries /\ [][NextEntries]_vars

\* ---- one call of _parse_projects on a drawn text
InitProjects ==
    /\ SectionDetectorInit(CfgEmpty)
    /\ OthersIdle
    /\ MatchIdle
    /\ DetectIdle
    /\ EntIdle
    /\ p_pc = "scan"
    /\ p_lines \in ProjTexts
    /\ p_i = 0
    /\ projects = <<>>
    /\ current_project = NoEntry
    /\ description_lines = <<>>
    /\ p_opened = {}

NextProjects ==
    \/ ProjectsEmpty
    \/ ProjectLine
    \/ ProjectsReturn

SpecProjects == InitProjects /\ [][NextProjects]_vars

\* ------------------------------------------- properties of SectionDetector

NonBlankLines(text) == SelectSeq(text, LAMBDA l : l # Blank)

\* the non-blank lines of a section's content in the result
ContentLines(S) ==
    IF S \in DOMAIN sections
    THEN {sections[S].content[k] : k \in 1..Len(sections[S].content)} \ {Blank}
    ELSE {}

IsHeading(line) ==
    line # Blank /\ match_section_heading(line, min_heading_size) # None

\* C1: a section's content is append-only within one pass: a line that was
\* appended to section S is part of S's content in the returned result.
C1_AppendOnly ==
    d_pc = "done" => \A p \in placed : p.line \in ContentLines(p.sec)

\* the section made current by the last heading before raw line k
ActiveBefore(k) ==
    LET hs == {j \in 1..(k - 1) : IsHeading(lines[j])}
    IN IF hs = {} THEN None
       ELSE match_section_heading(
                lines[CHOOSE j \in hs : \A h \in hs : h <= j], min_heading_size)

\* C2: detection starts with no active section: every heading line makes its
\* section current wherever it occurs; every other non-blank line is appended
\* to the section active at that point and to no section if there is none.
C2_StartsWithNoSection ==
    d_pc = "done" =>
        \A k \in 1..Len(lines) :
            /\ IsHeading(lines[k]) => k \in activated
            /\ (lines[k] # Blank /\ ~IsHeading(lines[k])) =>
                  {p.sec : p \in {q \in placed : q.src = "raw" /\ q.at = k}}
                      = IF ActiveBefore(k) = None THEN {} ELSE {ActiveBefore(k)}

\* the configured section with the highest fraction of matching patterns,
\* the first declared among equals
BestByFraction(rules, text) ==
    LET Num(k) == MatchCount(rules[k], text)
        Den(k) == Len(rules[k].patterns)
    IN CHOOSE k \in 1..Len(rules) :
          /\ \A j \in 1..Len(rules) : Num(j) * Den(k) <= Num(k) * Den(j)
          /\ \A j \in 1..(k - 1) : Num(j) * Den(k) < Num(k) * Den(j)

\* C3: whenever the scoring stage is reached, it makes the section with the
\* highest fraction of matching patterns (first declared on ties) the result
\* if and only if that fraction is at least confidence_threshold.
C3_HighestFraction ==
    (m_pc = "return" /\ m_stage \in {"scoring", "special", "none"}
        /\ section_rules # <<>>) =>
        LET b == BestByFraction(section_rules, m_text)
            reached == MatchCount(section_rules[b], m_text) * 100
                          >= confidence_threshold * Len(section_rules[b].patterns)
        IN (m_stage = "scoring" /\ m_result = section_rules[b].name) <=> reached

\* C4: a unit whose font size is below min_heading_size is a heading only if
\* it ends with a colon or is fully upper-case.
C4_SmallFontNeedsMarker ==
    (m_pc = "return" /\ m_font < min_heading_size
        /\ ~EndsWithColon(m_text) /\ ~IsUpper(m_text)) => m_result = None

\* C5: with an empty rule set no unit triggers a transition and detect_sections
\* returns all content in the single default section, without raising.
C5_EmptyRulesNoOp ==
    section_rules = <<>> =>
        /\ d_pc # "KeyError"
        /\ current_section = None
        /\ d_pc = "done" =>
              /\ section_keys = <<"content">>
              /\ sections["content"].content = document.raw_text

\* the lines of the blocks in order, each with the block it comes from
RECURSIVE BlockLines(_)
BlockLines(bs) ==
    IF bs = <<>> THEN <<>>
    ELSE [k \in 1..Len(Head(bs).text) |->
             [block |-> Head(bs), line |-> Head(bs).text[k]]]
         \o BlockLines(Tail(bs))

\* the result C6 states: sections in order of first heading, lines and blocks
\* after a heading collected under it, lines before the first heading dropped
RECURSIVE ClaimedBlocks(_, _)
ClaimedBlocks(ls, st) ==
    IF ls = <<>> THEN st
    ELSE LET l == Head(ls)
             h == match_section_heading(l.line, min_heading_size)
         IN ClaimedBlocks(Tail(ls),
              IF l.line = Blank THEN st
              ELSE IF h # None
                   THEN [cur |-> h,
                         keys |-> DictSet(st.keys, h),
                         secs |-> IF h \in DOMAIN st.secs THEN st.secs
                                  ELSE (h :> [lines |-> <<>>, blocks |-> <<>>]) @@ st.secs]
              ELSE IF st.cur = None THEN st
              ELSE [st EXCEPT
                      !.secs[st.cur].lines = Append(@, l.line),
                      !.secs[st.cur].blocks =
                          IF \E k \in 1..Len(@) : @[k] = l.block
                          THEN @ ELSE Append(@, l.block)])

\* C6: for a document whose content blocks contain headings, whatever its
\* raw_text, the result holds exactly the sections of the heading blocks in
\* order of first occurrence, each with the later non-heading blocks' text and
\* blocks up to the next heading.
C6_BlocksDecide ==
    LET bl == BlockLines(document.content)
        e == ClaimedBlocks(bl, [cur |-> None, keys |-> <<>>, secs |-> EmptyDict])
    IN (\E k \in 1..Len(bl) : IsHeading(bl[k].line)) =>
          /\ d_pc # "KeyError"
          /\ d_pc = "done" =>
                /\ section_keys = e.keys
                /\ \A S \in DOMAIN e.secs :
                      /\ S \in DOMAIN sections
                      /\ NonBlankLines(sections[S].content) = e.secs[S].lines
                      /\ sections[S].blocks = e.secs[S].blocks

\* ------------------------------------------ properties of the entry extractors

MainSites == PSESites \cup {"parse.experience"}

\* the lines of a section that the specification says open an entry
IsOpeningLine(site, line) ==
    IF site = "normalize_data.education" THEN AnyIn(DegreeKeywords, line)
    ELSE AnyIn(JobTitleKeywords, line)
OpeningLines(site, ls) == {k \in 1..Len(ls) : IsOpeningLine(site, ls[k])}

\* C7: in normalize_data, every line of the education section with a degree
\* keyword and every line of the experience section with a job-title keyword
\* opens an entry, and the number of entries emitted for the section is the
\* number of those lines.
C7_EveryOpeningLineEmitsEntry ==
    (e_site \in PSESites /\ e_pc \in {"parsed", "done"}) =>
        /\ e_opened = OpeningLines(e_site, e_lines)
        /\ Len(entries) = Cardinality(OpeningLines(e_site, e_lines))

\* the extractor is about to process a blank line
AtBlank ==
    \/ /\ e_pc = "scan" /\ ei < Len(e_lines)
       /\ e_lines[ei + 1] = Blank
    \/ /\ e_pc = "look" /\ next_idx < Len(e_lines) /\ next_idx <= ei + LookAhead
       /\ e_lines[next_idx + 1] = Blank
EntryKept ==
    /\ entries' = entries
    /\ current_entry' = current_entry
    /\ current_lines' = current_lines

\* C8 (as stated): in every extractor, of CVPipeline and of EntityExtractor, a
\* blank line never closes an education or experience entry: the step that
\* processes a blank line leaves the open entry and the emitted entries as
\* they are.
C8_BlankNeverClosesEntry ==
    [][(e_site \in Sites /\ AtBlank) => EntryKept]_vars

\* C8 (amended): in the extractors of CVPipeline (_parse_section_to_entries
\* and _parse_experience) a blank line never closes an entry: the step that
\* processes a blank line, in the main loop or in the look-ahead, leaves the
\* open entry, its lines and the emitted entries as they are.
C8_BlankKeepsEntryInPipeline ==
    [][(e_site \in MainSites /\ AtBlank) => EntryKept]_vars

\* a CVPipeline extractor has put the line before a blank line and the line
\* after it into the description of the same entry
C8_Witness ==
    /\ e_site \in MainSites
    /\ e_pc = "scan"
    /\ HasEntry(current_entry)
    /\ ei >= 3
    /\ e_lines[ei - 1] = Blank
    /\ Len(current_lines) >= 2
    /\ current_lines[Len(current_lines)] = e_lines[ei]
    /\ current_lines[Len(current_lines) - 1] = e_lines[ei - 2]

\* the bullet lines that follow the opening line o before the next opening line
BulletsAfter(ls, o) ==
    {j \in (o + 1)..Len(ls) :
        /\ StartsWithBullet(ls[j])
        /\ \A q \in (o + 1)..j : ~AnyIn(DegreeKeywords, ls[q])}

\* C9: every bullet line that follows the opening line of an education entry
\* appears, with its bullet stripped, in the achievements of that entry in
\* the normalized output.
C9_BulletsBecomeAchievements ==
    (e_site = "normalize_data.education" /\ e_pc = "done") =>
        \A o \in e_opened : \A j \in BulletsAfter(e_lines, o) :
            \E n \in 1..Len(normalized) :
                /\ normalized[n].degree = e_lines[o]
                /\ \E a \in 1..Len(normalized[n].achievements) :
                      normalized[n].achievements[a] = LStripBullets(e_lines[j])

\* ---------------------------------------------- properties of _parse_projects

RECURSIVE SortedSeq(_)
SortedSeq(S) ==
    IF S = {} THEN <<>>
    ELSE LET m == CHOOSE x \in S : \A y \in S : x <= y
         IN <<m>> \o SortedSeq(S \ {m})

MatchesTitle(line) ==
    TitleKind(line) \/ TitleProjectN(line) \/ TitleNumbered(line) \/ TitleYear(line)
EndsProjectHeading(line) == Len(line) > 0 /\ line[Len(line)] \in {":", "-"}

TitleLines(ls) == {k \in 1..Len(ls) : MatchesTitle(ls[k])}
ClaimedTitleLines(ls) ==
    {k \in 1..Len(ls) : MatchesTitle(ls[k]) \/ EndsProjectHeading(ls[k])}

\* the lines after line k up to the next line of O
Following(ls, O, k) ==
    LET later == {q \in O : q > k}
        stop == IF later = {} THEN Len(ls) + 1
                ELSE CHOOSE q \in later : \A r \in later : q <= r
    IN SubSeq(ls, k + 1, stop - 1)

IsDescriptionLine(line) == line # Blank /\ ~AnyIn(TechIndicators, Lower(line))
IsTextLine(line) == line # Blank

\* C10 (as stated): every line ending in ':' or '-' and every line matching a
\* numbered/titled pattern opens a project, and the lines that follow it
\* accumulate in the description of that project until the next such line.
C10_EndingsAndTitlesOpenProjects ==
    p_pc = "done" =>
        LET O == ClaimedTitleLines(p_lines)
            order == SortedSeq(O)
        IN /\ p_opened = O
           /\ Len(projects) = Len(order)
           /\ \A n \in 1..Len(order) :
                 projects[n].description
                    = Join(SelectSeq(Following(p_lines, O, order[n]), IsTextLine))

\* C10 (amended): a line opens a project exactly when it matches one of the
\* four title patterns; the lines that follow it and carry no technology
\* marker accumulate, in order, in the description of that project until the
\* next title line; the projects returned are, in order, those with at least
\* one description line.
C10_TitlesOpenProjects ==
    p_pc = "done" =>
        LET O == TitleLines(p_lines)
            kept == SortedSeq({k \in O :
                        SelectSeq(Following(p_lines, O, k), IsDescriptionLine) # <<>>})
        IN /\ p_opened = O
           /\ Len(projects) = Len(kept)
           /\ \A n \in 1..Len(kept) :
                 projects[n].description
                    = SelectSeq(Following(p_lines, O, kept[n]), IsDescriptionLine)

\* a project is returned whose description holds a line ending in ':' that
\* followed its title, and a second line after it
C10_Witness ==
    /\ p_pc = "done"
    /\ \E n \in 1..Len(projects) :
          /\ Len(projects[n].description) >= 2
          /\ EndsProjectHeading(projects[n].description[1])
    /\ \E k \in 1..Len(p_lines) : EndsProjectHeading(p_lines[k]) /\ k \notin p_opened

\* ------------------------------------------------ properties of the dates

NormalizeReturned == dn_pc = "return" /\ dn_fn = "normalize"

\* the four forms of the fallback ladder, as whole texts
IsQuarterText(text) ==
    /\ Len(text) = 4
    /\ text[1] \in {"Q", "q"}
    /\ Len(DigitsOf(text[2])) = 1 /\ DigitsOf(text[2])[1] \in 1..4
    /\ text[3] = Space
    /\ Len(DigitsOf(text[4])) = 4 /\ IntOf(DigitsOf(text[4])) >= 1
IsMonthNameText(text) ==
    /\ Len(text) = 3
    /\ LowerTok(text[1]) \in FullMonths \cup ShortMonths
    /\ text[2] = Space
    /\ Len(DigitsOf(text[3])) = 4 /\ IntOf(DigitsOf(text[3])) >= 1
IsMonthNumberText(text) ==
    /\ Len(text) = 3
    /\ Len(DigitsOf(text[1])) \in 1..2 /\ IntOf(DigitsOf(text[1])) \in 1..12
    /\ text[2] \in {Space, "/", "-"}
    /\ Len(DigitsOf(text[3])) = 4 /\ IntOf(DigitsOf(text[3])) >= 1
IsYearText(text) ==
    Len(text) = 1 /\ Len(DigitsOf(text[1])) = 4 /\ IntOf(DigitsOf(text[1])) >= 1

InvalidDateTexts ==
    { <<"Feb", Space, "30", Space, "2020">>, <<"Feb", Space, "29", Space, "2021">>,
      <<"13", "/", "2022">>, <<"32", "/", "13", "/", "2020">> }

\* C16: DateNormalizer.normalize returns None for every text that denotes an
\* invalid calendar date ('Feb 30 2020', 'Feb 29 2021', '13/2022',
\* '32/13/2020'); it never returns some other date for such a text.
C16_InvalidDateGivesNone ==
    (NormalizeReturned /\ dn_args[1] \in InvalidDateTexts) => dn_result = NoDate

PeriodReturned == dn_pc = "return" /\ dn_fn = "extract_period"

\* normalize, with what dateparser returned in this call
Normalized(text) == NormalizeDate(text, dn_parsed)

PeriodDelimiterTokens == {"to", "-", "endash", "emdash"}
\* the two halves of a text around its first delimiter token
HalvesAt(text, k) ==
    <<Strip(SubSeq(text, 1, k - 1)), Strip(SubSeq(text, k + 1, Len(text)))>>

StandsAt(text, d, k) ==
    /\ text[k] = delimiters[d].core
    /\ delimiters[d].spaced =>
          /\ k > 1 /\ text[k - 1] = Space
          /\ k < Len(text) /\ text[k + 1] = Space

DurationReturned == dn_pc = "return" /\ dn_fn = "calculate_duration"

\* the date an argument resolves to: the date itself, or the date the
\* normalizer gives for the string
Resolved(arg) ==
    IF arg.kind = "date" THEN arg.date
    ELSE IF arg.kind = "str" /\ ParserCalls(arg.text) \subseteq DOMAIN dn_parsed
    THEN NormalizeDate(arg.text, dn_parsed)
    ELSE NoDate

\* C18: for every start and end that resolve to dates S and E (given as dates
\* or as strings the normalizer resolves) calculate_duration returns 0 if E is
\* before S and otherwise the months from S to E, plus 1 if E.day > S.day.
C18_MonthsBetween ==
    LET S == Resolved(dn_args[1])
        E == Resolved(dn_args[2])
    IN (DurationReturned /\ S # NoDate /\ E # NoDate) =>
          dn_result = IF DateBefore(E, S) THEN 0
                      ELSE (E.year * 12 + E.month) - (S.year * 12 + S.month)
                           + (IF E.day > S.day THEN 1 ELSE 0)

\* ------------------------------------------ properties of the normalizers

NormReturned == nm_pc = "return"
LastResult == nm_calls[Len(nm_calls)].result

\* C11: every entry returned by EducationNormalizer.normalize has a non-empty
\* institution and every entry returned by ExperienceNormalizer.normalize has
\* a non-empty company, for every list of raw entries: an empty or missing
\* value has become "Unknown" or the entry is left out.
C11_RequiredFieldsNonEmpty ==
    /\ (NormReturned /\ nm_fn = "EducationNormalizer.normalize") =>
          \A k \in 1..Len(LastResult) : LastResult[k].institution # Blank
    /\ (NormReturned /\ nm_fn = "ExperienceNormalizer.normalize") =>
          \A k \in 1..Len(LastResult) : LastResult[k].company # Blank

\* the second call was made with the result of the first
Renormalized ==
    /\ NormReturned
    /\ Len(nm_calls) = 2
    /\ nm_calls[2].arg = nm_calls[1].result

\* C19: normalization is idempotent: for every string s and every ontology,
\* normalize(normalize(s)) = normalize(s), for SkillNormalizer.normalize,
\* normalize_company and normalize_title.
C19_Idempotent ==
    (Renormalized /\ nm_fn \in {"SkillNormalizer.normalize", "normalize_company",
                                 "normalize_title"})
        => nm_calls[2].result = nm_calls[1].result

\* the two calls were made with names that differ in letter case only and
\* equal one name of the index, and no other, when case is ignored
CaseVariantsOfIndexed ==
    /\ NormReturned
    /\ nm_fn \in NameMethods
    /\ Len(nm_calls) = 2
    /\ Lower(nm_calls[1].arg) = Lower(nm_calls[2].arg)
    /\ Cardinality({e \in Index(nm_mapping) : Lower(e) = Lower(nm_calls[1].arg)}) = 1

\* C20: the exact-match stage of every normalizer (skill, company, title,
\* institution, degree) ignores letter case: two inputs that differ only in
\* letter case and equal an index entry ignoring case are normalized to the
\* same canonical form.
C20_ExactMatchIgnoresCase ==
    CaseVariantsOfIndexed => nm_calls[2].result = nm_calls[1].result

\* ---------------------------------------------------------------------------
\* Construction with missing or malformed configuration
\* ---------------------------------------------------------------------------
RulesFile == "parsing_rules.yaml"
OntologyFiles ==
    {"skills_ontology.json", "data/ontology/skills_ontology.json", "institutions.json",
     "degrees.json", "fields.json", "companies.json", "titles.json"}
Unusable(file) == ld_files[file] # "ok"

\* the table the constructed pipeline holds for a source
PipelineTable(file) ==
    CASE file = RulesFile -> ld_loaded.rules
      [] file = "skills_ontology.json" -> ld_loaded.skill_normalizer.ontology
      [] file = "data/ontology/skills_ontology.json" -> ld_loaded.experience_normalizer.ontology
      [] file = "institutions.json" -> ld_loaded.education_normalizer.institution_mapping
      [] file = "degrees.json" -> ld_loaded.education_normalizer.degree_mapping
      [] file = "fields.json" -> ld_loaded.education_normalizer.field_mapping
      [] file = "companies.json" -> ld_loaded.experience_normalizer.company_mapping
      [] file = "titles.json" -> ld_loaded.experience_normalizer.title_mapping

PipelineConstructed == ld_pc = "done" /\ ld_fn = "CVPipeline"

\* C13: constructing the pipeline raises only when the rules file and every
\* ontology file are unusable; when one source alone, the rules file or one
\* ontology file, is missing or malformed, construction succeeds and that
\* source is an empty table.
C13_RaisesOnlyWhenNothingUsable ==
    PipelineConstructed =>
        /\ ld_raised # None =>
               Unusable(RulesFile) /\ \A file \in OntologyFiles : Unusable(file)
        /\ \A file \in {RulesFile} \cup OntologyFiles :
               ({other \in {RulesFile} \cup OntologyFiles : Unusable(other)} = {file}) =>
                   ld_raised = None /\ PipelineTable(file) = EmptyTable

\* the mapping attributes of each normalizer and the file each is loaded from
MappingSources(fn) ==
    CASE fn = "SkillNormalizer" -> [ontology |-> "skills_ontology.json"]
      [] fn = "EducationNormalizer" ->
             [institution_mapping |-> "institutions.json",
              degree_mapping |-> "degrees.json",
              field_mapping |-> "fields.json"]
      [] fn = "ExperienceNormalizer" ->
             [ontology |-> "data/ontology/skills_ontology.json",
              company_mapping |-> "companies.json",
              title_mapping |-> "titles.json",
              position_mapping |-> "titles.json"]

NormalizerConstructed ==
    ld_pc = "done" /\ ld_fn \in {"SkillNormalizer", "EducationNormalizer", "ExperienceNormalizer"}

\* the constructor read a skills ontology that is not JSON
MalformedSkillsOntology ==
    /\ "ontology" \in DOMAIN MappingSources(ld_fn)
    /\ ld_files[MappingSources(ld_fn).ontology] = "malformed"

BuildReturned == br_pc = "done"

\* the positions of the entries of a section that violate its schema
Invalid(list, model) == {k \in 1..Len(list) : ~Validates(list[k], model)}
InvalidEntries ==
    Cardinality(Invalid(br_data.education, EducationModel))
    + Cardinality(Invalid(br_data.experience, ExperienceModel))
    + Cardinality(Invalid(br_data.projects, ProjectModel))

\* a section without the entries that violate its schema
ValidOnly(list, model) ==
    ParsedList(SelectSeq(list, LAMBDA entry : Validates(entry, model)), model)

\* C12: when exactly one entry of the normalized data violates the schema,
\* build_resume returns a Resume, and the Resume holds every other entry and
\* not that one.
C12_OnlyInvalidEntryDropped ==
    (BuildReturned /\ InvalidEntries = 1) =>
        /\ br_result.raised = None
        /\ br_result.resume =
               [contact |-> Parsed(br_data.contact, ContactModel),
                education |-> ValidOnly(br_data.education, EducationModel),
                experience |-> ValidOnly(br_data.experience, ExperienceModel),
                projects |-> ValidOnly(br_data.projects, ProjectModel)]

\* C21: a variant maps to one canonical, the first match wins:
\* SkillNormalizer.normalize of a term that is, letter for letter, an entry of
\* the index returns the first canonical of the ontology that equals the term
\* or lists it as a variant, also when another entry of the index differs
\* from the term in letter case only.
C21_FirstMatchWins ==
    (NormReturned /\ nm_fn = "SkillNormalizer.normalize" /\ Len(nm_calls) = 1
     /\ nm_calls[1].arg \in Index(nm_mapping))
        => nm_calls[1].result = GetCanonical(nm_calls[1].arg, nm_mapping)

\* C22: EducationNormalizer.normalize returns one entry for each input entry,
\* in the input's order, in which the institution and the degree are the
\* canonical forms that normalize_institution and normalize_degree give for
\* the input's values (stated for values that are entries of the index, whose
\* canonical form needs no fuzzy match), and in which the gpa of the input is
\* carried.
C22_EntriesCanonical ==
    (NormReturned /\ nm_fn = "EducationNormalizer.normalize") =>
        /\ Len(LastResult) = Len(NormArg)
        /\ \A k \in 1..Len(NormArg) :
               /\ Get(NormArg[k], "institution", Blank) \in Index(nm_mapping) =>
                      LastResult[k].institution =
                          normalize_institution(NormArg[k].institution, nm_mapping, nm_fuzzy)
               /\ Get(NormArg[k], "degree", Blank) \in Index(nm_mapping) =>
                      LastResult[k].degree =
                          normalize_degree(NormArg[k].degree, nm_mapping, nm_fuzzy)
               /\ "gpa" \in DOMAIN NormArg[k] => "gpa" \in DOMAIN LastResult[k]

\* ------------------------------------------ properties of normalize_list

ListReturned == nm_pc = "return" /\ nm_fn = "SkillNormalizer.normalize_list"

\* a list in strictly ascending order: sorted, and no name twice
Ascending(list) == \A k \in 1..(Len(list) - 1) : Before(list[k], list[k + 1])

\* C23: normalize_list returns a list in ascending order without
\* duplicates, and returns the same list when it is called again with the
\* same terms in another order or with terms repeated.
C23_OrderIndependent ==
    ListReturned =>
        /\ Ascending(LastResult)
        /\ Len(nm_calls) = 2 => nm_calls[2].result = nm_calls[1].result

\* two terms were given, then again in the opposite order, and the list
\* returned has at least two names
C23_Witness ==
    /\ ListReturned
    /\ Len(nm_calls) = 2
    /\ Len(nm_calls[1].arg) = 2
    /\ nm_calls[1].arg[1] # nm_calls[1].arg[2]
    /\ nm_calls[2].arg = <<nm_calls[1].arg[2], nm_calls[1].arg[1]>>
    /\ Len(nm_calls[2].result) >= 2
    /\ nm_calls[2].result = nm_calls[1].result

\* str.isdigit() of a non-empty text
PurelyNumeric(text) == text # <<>> /\ \A k \in 1..Len(text) : IsNumber(text[k])

\* C24: the list normalize_list returns holds no stop-word, no text of a
\* single character and no text made of digits only, whatever the input.
C24_NoStopWordCharOrNumber ==
    ListReturned =>
        \A k \in 1..Len(LastResult) :
            /\ ~IsStopWord(LastResult[k])
            /\ ~AtMostOneChar(LastResult[k])
            /\ ~PurelyNumeric(LastResult[k])

\* ---- the SkillNormalizer object
ObjectFields == <<sn_ontology, sn_skill_index, sn_lower_index>>
SkillReady == sn_pc = "ready"
LastSkillCall == sn_calls[Len(sn_calls)]
Called(op) == \E k \in 1..Len(sn_calls) : sn_calls[k].op = op
IsPrefix(a, b) == Len(a) <= Len(b) /\ SubSeq(b, 1, Len(a)) = a
\* keys, variants and index entries stay where they are; new ones come after
OnlyAppended ==
    /\ IsPrefix(sn_skill_index, sn_skill_index')
    /\ Len(sn_ontology) <= Len(sn_ontology')
    /\ \A k \in 1..Len(sn_ontology) :
          /\ sn_ontology'[k].canonical = sn_ontology[k].canonical
          /\ IsPrefix(sn_ontology[k].variants, sn_ontology'[k].variants)

NoDuplicate(list) == \A a, b \in 1..Len(list) : list[a] = list[b] => a = b
C29_IndexCoversOntology ==
    SkillReady =>
       /\ NoDuplicate(sn_skill_index)
       /\ \A k \in 1..Len(sn_ontology) :
             /\ InList(sn_ontology[k].canonical, sn_skill_index)
             /\ \A v \in 1..Len(sn_ontology[k].variants) :
                   InList(sn_ontology[k].variants[v], sn_skill_index)
       /\ \A k \in 1..Len(sn_skill_index) :
             Lower(sn_skill_index[k]) \in DOMAIN sn_lower_index
C29_Witness ==
    /\ SkillReady
    /\ sn_loaded = RepeatedMapping
    /\ Len(sn_calls) = MaxCalls
    /\ \A k \in 1..Len(sn_calls) : sn_calls[k].op = "add_custom_mapping"
    /\ Len(sn_ontology) > Len(sn_loaded)
    /\ Len(sn_skill_index) >= Len(CreateSkillIndex(sn_loaded)) + 2

\* ---- PIIAnonymizer
Restored == pii_pc = "restored"
\* C27: restore_original(anonymize(text)[0]) is the text, for every text, also
\* one with several distinct PII values of the same entity type, under each
\* replacement strategy.
C27_RoundTrip == Restored => pii_restored = pii_text

\* ---- TextParser._structure_content
TextReturned == tp_pc = "return"
BlankLine(k) == Strip(tp_lines[k]) = Blank
HeadingLine(k) == ~BlankLine(k) /\ IsHeadingLine(Strip(tp_lines[k]))
PlainLine(k) == ~BlankLine(k) /\ ~HeadingLine(k)
\* a maximal run of plain lines
IsRun(a, b) ==
    /\ a <= b
    /\ \A k \in a..b : PlainLine(k)
    /\ a = 1 \/ ~PlainLine(a - 1)
    /\ b = Len(tp_lines) \/ ~PlainLine(b + 1)
Unit(a, b, type) == [first |-> a, last |-> b, type |-> type]
Units ==
    {Unit(k, k, "heading") : k \in {h \in 1..Len(tp_lines) : HeadingLine(h)}}
    \cup {Unit(r[1], r[2], "text") :
             r \in {p \in (1..Len(tp_lines)) \X (1..Len(tp_lines)) : IsRun(p[1], p[2])}}
\* the unit that has n - 1 units before it
UnitAt(n) ==
    CHOOSE u \in Units : Cardinality({v \in Units : v.first < u.first}) = n - 1
UnitText(u) ==
    IF u.type = "heading" THEN <<Strip(tp_lines[u.first])>>
    ELSE SubSeq(tp_lines, u.first, u.last)
EmptyText(text) == text = <<>> \/ text = <<Blank>>
\* C28: _structure_content returns, in the order of the input, one heading
\* block for each line that matches the heading pattern in full and one text
\* block for each maximal run of consecutive lines that are neither blank nor
\* headings, its lines joined by newlines; a blank line or a heading ends the
\* run, and no block has an empty text.
C28_BlocksAreHeadingsAndRuns ==
    TextReturned =>
       /\ Len(tp_blocks) = Cardinality(Units)
       /\ \A n \in 1..Len(tp_blocks) :
             /\ tp_blocks[n].type = UnitAt(n).type
             /\ tp_blocks[n].text = UnitText(UnitAt(n))
             /\ ~EmptyText(tp_blocks[n].text)
C28_Witness ==
    /\ TextReturned
    /\ Len(tp_lines) = MaxTextLines
    /\ \E a, b, c \in 1..Len(tp_blocks) :
          /\ a < b /\ b < c
          /\ tp_blocks[a].type = "text" /\ Len(tp_blocks[a].text) = 2
          /\ tp_blocks[b].type = "heading"
          /\ tp_blocks[c].type = "text"

\* ---- the lines of an entry
\* the first line after line o that opened an entry, or the end of the text
NextOpening(o) ==
    IF \E p \in e_opened : p > o
    THEN CHOOSE p \in e_opened : p > o /\ \A q \in e_opened : q > o => p <= q
    ELSE Len(e_lines) + 1
OpeningOf(entry) == IF "degree" \in DOMAIN entry THEN entry.degree ELSE entry.position
\* the fields of the entry that hold the line
NameFieldsHolding(entry, line) ==
    {f \in {"institution", "company", "location"} \cap DOMAIN entry : entry[f] = line}
DateFieldsHolding(entry, line, date_match) ==
    IF /\ date_match.found
       /\ entry.start_date = date_match.start
       /\ entry.end_date = date_match.end
    THEN {"dates"} ELSE {}
ListFieldsHolding(entry, line, text) ==
    {f \in {"achievements", "description"} \cap DOMAIN entry : InList(text, entry[f])}
FieldsHolding(entry, line) ==
    NameFieldsHolding(entry, line)
    \cup DateFieldsHolding(entry, line, DateSearch(line))
    \cup ListFieldsHolding(entry, line,
                           IF StartsWithBullet(line) THEN LStripBullets(line) ELSE line)
EntryLinesOf(o) == {k \in (o + 1)..(NextOpening(o) - 1) : e_lines[k] # Blank}

\* C30: in _parse_section_to_entries and _parse_experience no line of an
\* entry is lost: every non-blank line after the opening line of an entry and
\* before the next opening line is held by exactly one field of that entry
\* (the dates, the institution, the company or the location, the
\* achievements, or the description).
C30_NoLineLost ==
    (e_site \in MainSites /\ e_pc \in {"parsed", "done"}) =>
       \A o \in e_opened : \A k \in EntryLinesOf(o) :
          \E j \in 1..Len(entries) :
             /\ OpeningOf(entries[j]) = e_lines[o]
             /\ Cardinality(FieldsHolding(entries[j], e_lines[k])) = 1

\* ------------------------------------ CVPipeline.process_cv, two documents
\* One CVPipeline object is shared by two threads, each running process_cv on
\* its own document.  A step of a thread is one iteration of a loop, or one
\* call, of process_cv; cc_docs[d] holds the local variables of thread d and
\* cc_self the fields of the object that the steps read.  The contact, project
\* and certification extractors and the experience branch work on their
\* argument alone as the education branch does, and are left out.

Threads == {1, 2}

\* CVPipeline._initialize_components (main.py 70-86), as far as the steps read
\* the objects it builds
PipelineObject(cfg, ontology) ==
    [section_rules |-> cfg.sections,
     confidence_threshold |-> GetSetting(cfg.settings, "confidence_threshold",
                                         DefaultThreshold),
     min_heading_size |-> GetSetting(cfg.settings, "min_heading_size",
                                     DefaultMinHeadingSize),
     skill_normalizer |-> SkillObject(ontology, CreateSkillIndex(ontology),
                                      CreateLowerIndex(CreateSkillIndex(ontology)))]

\* the local variables of a thread that is about to call process_cv
ProcessCvCall(raw_text) ==
    [pc |-> "start", raw_text |-> raw_text, lines |-> <<>>, i |-> 0,
     sections |-> EmptyDict, current_section |-> None, current_content |-> <<>>,
     parsed |-> EmptyDict, skills |-> <<>>, texts |-> <<>>, ti |-> 0,
     normalized_skills |-> {}, entries |-> <<>>, normalized |-> EmptyDict,
     resume |-> EmptyDict,
     overlapped |-> FALSE]      \* history: a step was taken amid the other's run

\* ---- detect_sections (section_detector.py 31-154)
\* lines 32-56
DetectStartOf(doc) ==
    LET raw == doc.raw_text
        head == SubSeq(raw, 1, IF Len(raw) < ContactLines THEN Len(raw) ELSE ContactLines)
        contact_lines == SelectSeq(head, LAMBDA l : l # Blank)
    IN [doc EXCEPT !.pc = "raw",
                   !.lines = raw,
                   !.sections = IF contact_lines # <<>>
                                THEN "contact" :> [content |-> Join(contact_lines),
                                                   position |-> NoPosition,
                                                   blocks |-> <<>>]
                                ELSE EmptyDict,
                   !.i = ContactLines,
                   !.current_section = None,
                   !.current_content = <<>>]

\* lines 68-70 and 97-98
FlushedOf(secs, section, content) ==
    IF section # None /\ content # <<>>
    THEN [secs EXCEPT ![section].content = Join(content)]
    ELSE secs

\* lines 57-94 with the content of the open section kept on the object
DetectLineOnSelf(self, doc) ==
    LET line == doc.lines[doc.i + 1]
        content == Get(self, "current_content", <<>>)
        section_match == MatchSectionHeading(self.section_rules, self.confidence_threshold,
                                             line, self.min_heading_size)
    IN IF line = Blank
       THEN [self |-> self, doc |-> [doc EXCEPT !.i = @ + 1]]
       ELSE IF section_match # None
       THEN [self |-> Put(self, "current_content",
                          IF section_match = "skills" THEN <<line>> ELSE <<>>),
             doc |-> [doc EXCEPT
                        !.sections = (section_match :> NewSection(NoPosition))
                                     @@ FlushedOf(doc.sections, doc.current_section, content),
                        !.current_section = section_match,
                        !.i = @ + 1]]
       ELSE IF doc.current_section # None
       THEN [self |-> Put(self, "current_content", Append(content, line)),
             doc |-> [doc EXCEPT !.i = @ + 1]]
       ELSE [self |-> self, doc |-> [doc EXCEPT !.i = @ + 1]]

\* lines 57-94: one iteration of the loop over the remaining lines
DetectLine(self, doc) ==
    LET line == doc.lines[doc.i + 1]
        section_match == MatchSectionHeading(self.section_rules, self.confidence_threshold,
                                             line, self.min_heading_size)
    IN IF line = Blank
       THEN [self |-> self, doc |-> [doc EXCEPT !.i = @ + 1]]
       ELSE IF section_match # None
       THEN [self |-> self,
             doc |-> [doc EXCEPT
                        !.sections = (section_match :> NewSection(NoPosition))
                                     @@ FlushedOf(doc.sections, doc.current_section,
                                                  doc.current_content),
                        !.current_section = section_match,
                        !.current_content = IF section_match = "skills"
                                            THEN <<line>> ELSE <<>>,
                        !.i = @ + 1]]
       ELSE IF doc.current_section # None
       THEN [self |-> self,
             doc |-> [doc EXCEPT !.current_content = Append(@, line), !.i = @ + 1]]
       ELSE [self |-> self, doc |-> [doc EXCEPT !.i = @ + 1]]

\* lines 96-105: the last section is saved; when no section holds text the
\* sections are reset and the content blocks are read.  PDFParser.parse
\* (pdf_parser.py 61-69, 98-106) hands over one block that holds the raw text.
DetectEndOf(doc) ==
    LET saved == FlushedOf(doc.sections, doc.current_section, doc.current_content)
        none == \A s \in DOMAIN saved : ~NonBlankText(saved[s].content)
    IN IF none
       THEN [doc EXCEPT !.pc = "blocks", !.sections = EmptyDict, !.i = 0,
                        !.lines = IF NonBlankText(doc.raw_text) THEN doc.raw_text
                                  ELSE <<>>]
       ELSE [doc EXCEPT !.pc = "parse", !.sections = saved]

\* process_cv's except clause: the error of a step is raised again
Raised(doc, error) == [doc EXCEPT !.pc = "done", !.resume = [raised |-> error]]

\* lines 114-138: one line of the block; current_section may still name a
\* heading of the raw text, which the reset sections no longer hold
DetectBlockLine(self, doc) ==
    LET line == doc.lines[doc.i + 1]
        section_match == MatchSectionHeading(self.section_rules, self.confidence_threshold,
                                             line, self.min_heading_size)
        opened == IF section_match \in DOMAIN doc.sections THEN doc.sections
                  ELSE (section_match :> NewSection(NoPosition)) @@ doc.sections
    IN IF line = Blank THEN [doc EXCEPT !.i = @ + 1]
       ELSE IF section_match # None
       THEN [doc EXCEPT !.current_section = section_match,
                        !.sections = IF section_match = "skills"
                                     THEN [opened EXCEPT !["skills"].content =
                                                              AppendLn(@, line)]
                                     ELSE opened,
                        !.i = @ + 1]
       ELSE IF doc.current_section = None THEN [doc EXCEPT !.i = @ + 1]
       ELSE IF doc.current_section \in DOMAIN doc.sections
       THEN [doc EXCEPT !.sections[doc.current_section].content = AppendLn(@, line),
                        !.i = @ + 1]
       ELSE Raised(doc, "ParserError")

\* lines 140-154: the default section, and the return
DetectReturnOf(doc) ==
    [doc EXCEPT !.pc = "parse",
                !.sections = IF DOMAIN doc.sections = {}
                             THEN "content" :> [content |-> doc.raw_text,
                                                position |-> NoPosition,
                                                blocks |-> <<>>]
                             ELSE doc.sections]

\* ---- parse_cv (main.py 114-142)
\* sections.get(name, {}).get('content', '')
ContentOf(secs, name) ==
    IF name \in DOMAIN secs THEN secs[name].content ELSE <<Blank>>
ParsedNames == {"contact", "summary", "skills", "education", "experience",
                "projects", "certifications"}
ParseCvOf(doc) ==
    [doc EXCEPT !.pc = "extract",
                !.parsed = [name \in ParsedNames |-> ContentOf(doc.sections, name)]]

\* ---- normalize_data (main.py 144-166)
\* _parse_skills (main.py 283-306)
TechnicalSkills == <<"technical", Space, "skills">>
ParseSkills(text) ==
    SelectSeq([k \in 1..Len(text) |-> Strip(text[k])],
              LAMBDA l : l # Blank /\ Lower(l) # TechnicalSkills)

\* _parse_section_to_entries (main.py 308-391) as a function of the lines
\* lines 330-332 and 387-389
SavedOf(st) ==
    IF HasEntry(st.current_entry) /\ st.current_lines # <<>>
    THEN Append(st.entries, [st.current_entry EXCEPT !.description = Join(st.current_lines)])
    ELSE st.entries

\* lines 346-373: the look-ahead loop from idx (next_idx), and i = next_idx - 1
\* followed by i += 1
RECURSIVE LookAheadFrom(_, _, _)
LookAheadFrom(ls, st, idx) ==
    IF idx < Len(ls) /\ idx <= st.i + LookAhead
    THEN LET next_line == ls[idx + 1]
             date_match == DateSearch(next_line)
         IN IF next_line = Blank THEN LookAheadFrom(ls, st, idx + 1)
            ELSE IF date_match.found
            THEN LookAheadFrom(ls, [st EXCEPT !.current_entry.start_date = date_match.start,
                                              !.current_entry.end_date = date_match.end],
                               idx + 1)
            ELSE IF st.current_entry.institution = Blank
            THEN LookAheadFrom(ls, [st EXCEPT !.current_entry.institution = next_line],
                               idx + 1)
            ELSE LookAheadFrom(ls, st, idx + 1)
    ELSE [st EXCEPT !.i = idx]

\* lines 316-391: the outer loop from st.i, and the final entry
RECURSIVE SectionToEntriesFrom(_, _)
SectionToEntriesFrom(ls, st) ==
    IF st.i >= Len(ls) THEN SavedOf(st)
    ELSE LET line == ls[st.i + 1]
         IN IF line = Blank THEN SectionToEntriesFrom(ls, [st EXCEPT !.i = @ + 1])
            ELSE IF AnyIn(DegreeKeywords, line)
            THEN SectionToEntriesFrom(ls,
                    LookAheadFrom(ls, [st EXCEPT !.entries = SavedOf(st),
                                                 !.current_entry = NewEducationEntry(line),
                                                 !.current_lines = <<>>],
                                  st.i + 1))
            ELSE IF HasEntry(st.current_entry)
            THEN IF StartsWithBullet(line)
                 THEN SectionToEntriesFrom(ls,
                        [st EXCEPT !.current_entry.achievements =
                                        Append(@, LStripBullets(line)),
                                   !.i = @ + 1])
                 ELSE SectionToEntriesFrom(ls, [st EXCEPT !.current_lines = Append(@, line),
                                                          !.i = @ + 1])
            ELSE SectionToEntriesFrom(ls, [st EXCEPT !.i = @ + 1])
parse_section_to_entries(text) ==
    SectionToEntriesFrom(text, [i |-> 0, entries |-> <<>>, current_entry |-> NoEntry,
                                current_lines |-> <<>>])

\* lines 149-154: the two extractors, called before the normalizers they feed;
\* normalize_list's texts are the parts of the skills it keeps (lines 83-140)
ExtractOf(doc) ==
    [doc EXCEPT !.pc = "skills",
                !.skills = ParseSkills(doc.parsed.skills),
                !.texts = ListTexts(ParseSkills(doc.parsed.skills)),
                !.ti = 0,
                !.normalized_skills = {},
                !.entries = parse_section_to_entries(doc.parsed.education)]

\* skill_normalizer.py 128-153: one call of self.normalize in normalize_list;
\* it reads self.lower_index, self.skill_index and self.ontology
NormalizeTextOf(self, found, doc, text) ==
    LET name == NormalizeOn(self.skill_normalizer, text, found[text])
    IN [doc EXCEPT !.normalized_skills =
                        IF name # Blank /\ ~IsStopWord(name)
                        THEN @ \cup {name} ELSE @,
                   !.ti = @ + 1]

\* skill_normalizer.py 155 and main.py 146-165: sorted(list(normalized_skills)),
\* EducationNormalizer.normalize of the entries, and the dict returned
NormalizedOf(doc) ==
    [doc EXCEPT !.pc = "build",
                !.normalized = [summary |-> doc.parsed.summary,
                                skills |-> Sorted(doc.normalized_skills),
                                education |-> Normalize(doc.entries)]]

\* build_resume (main.py 523-538)
BuildResumeOf(doc) ==
    [doc EXCEPT !.pc = "done",
                !.resume = [summary |-> Get(doc.normalized, "summary", <<Blank>>),
                            skills |-> Get(doc.normalized, "skills", <<>>),
                            education |-> Get(doc.normalized, "education", <<>>)]]

\* ---- the steps of one thread
Local(self, doc) == [self |-> self, doc |-> doc]
StepOf(self, found, doc) ==
    CASE doc.pc = "start" -> Local(self, DetectStartOf(doc))
      [] doc.pc = "raw" /\ doc.i < Len(doc.lines) -> DetectLine(self, doc)
      [] doc.pc = "raw" /\ doc.i >= Len(doc.lines) -> Local(self, DetectEndOf(doc))
      [] doc.pc = "blocks" /\ doc.i < Len(doc.lines) ->
            Local(self, DetectBlockLine(self, doc))
      [] doc.pc = "blocks" /\ doc.i >= Len(doc.lines) -> Local(self, DetectReturnOf(doc))
      [] doc.pc = "parse" -> Local(self, ParseCvOf(doc))
      [] doc.pc = "extract" -> Local(self, ExtractOf(doc))
      [] doc.pc = "skills" /\ doc.ti < Len(doc.texts) ->
            Local(self, NormalizeTextOf(self, found, doc, doc.texts[doc.ti + 1]))
      [] doc.pc = "skills" /\ doc.ti >= Len(doc.texts) -> Local(self, NormalizedOf(doc))
      [] doc.pc = "build" -> Local(self, BuildResumeOf(doc))

\* process_cv run by one thread with no other thread about
RECURSIVE ProcessCvFrom(_, _)
ProcessCvFrom(found, at) ==
    IF at.doc.pc = "done" THEN at.doc.resume
    ELSE ProcessCvFrom(found, StepOf(at.self, found, at.doc))
process_cv(self, found, raw_text) ==
    ProcessCvFrom(found, Local(self, ProcessCvCall(raw_text)))

Running(doc) == doc.pc \notin {"start", "done"}
Step(d, pcs, next) ==
    /\ cc_docs[d].pc \in pcs
    /\ cc_self' = next.self
    /\ cc_docs' = [cc_docs EXCEPT ![d] = [next.doc EXCEPT !.overlapped =
                            @ \/ \E o \in Threads \ {d} : Running(cc_docs[o])]]
    /\ UNCHANGED <<cc_built, cc_found, notConcVars>>

DetectStartStep(d) == Step(d, {"start"}, Local(cc_self, DetectStartOf(cc_docs[d])))
DetectLineStep(d) ==
    /\ cc_docs[d].pc = "raw" /\ cc_docs[d].i < Len(cc_docs[d].lines)
    /\ Step(d, {"raw"}, DetectLine(cc_self, cc_docs[d]))
DetectEndStep(d) ==
    /\ cc_docs[d].pc = "raw" /\ cc_docs[d].i >= Len(cc_docs[d].lines)
    /\ Step(d, {"raw"}, Local(cc_self, DetectEndOf(cc_docs[d])))
DetectBlockLineStep(d) ==
    /\ cc_docs[d].pc = "blocks" /\ cc_docs[d].i < Len(cc_docs[d].lines)
    /\ Step(d, {"blocks"}, Local(cc_self, DetectBlockLine(cc_self, cc_docs[d])))
DetectReturnStep(d) ==
    /\ cc_docs[d].pc = "blocks" /\ cc_docs[d].i >= Len(cc_docs[d].lines)
    /\ Step(d, {"blocks"}, Local(cc_self, DetectReturnOf(cc_docs[d])))
ParseCvStep(d) == Step(d, {"parse"}, Local(cc_self, ParseCvOf(cc_docs[d])))
ExtractStep(d) == Step(d, {"extract"}, Local(cc_self, ExtractOf(cc_docs[d])))
NormalizeTextStep(d) ==
    /\ cc_docs[d].pc = "skills" /\ cc_docs[d].ti < Len(cc_docs[d].texts)
    /\ Step(d, {"skills"},
            Local(cc_self, NormalizeTextOf(cc_self, cc_found, cc_docs[d],
                                           cc_docs[d].texts[cc_docs[d].ti + 1])))
NormalizedStep(d) ==
    /\ cc_docs[d].pc = "skills" /\ cc_docs[d].ti >= Len(cc_docs[d].texts)
    /\ Step(d, {"skills"}, Local(cc_self, NormalizedOf(cc_docs[d])))
BuildResumeStep(d) == Step(d, {"build"}, Local(cc_self, BuildResumeOf(cc_docs[d])))

\* ---- the documents: five contact lines, then headings and their lines
ContactHead == << <<"Acme">>, Blank, <<"Gauteng">>, Blank, Blank >>
DocTechnologies ==
    ContactHead \o << <<"Technologies">>, <<"Google">>, <<"EDUCATION">>, DegreeLine,
                      <<"MIT">>, DateLine, <<"Graduated">>, <<"Thesis">> >>
DocAcademic ==
    ContactHead \o << <<"Academic">>, DegreeLine, <<"MIT">>, <<"Graduated">>,
                      <<"Honours">>, <<"Thesis">>,
                      <<"SKILLS">>, <<"google">> >>
\* no contact line, and a heading that no text follows
DocHeadingOnly == << Blank, Blank, Blank, Blank, Blank, <<"Thesis">>, <<"Academic">> >>
PipelineDocuments == {DocTechnologies, DocAcademic, DocHeadingOnly}
\* rules that know both of the headings that are not common ones
CfgBoth == [sections |-> CfgThreshold.sections \o CfgTest.sections,
            settings |-> CfgThreshold.settings]
PipelineConfigs == {CfgTest, CfgThreshold, CfgBoth}
PipelineOntologies == {<<>>, << MapEntry(<<"Alphabet">>, << <<"google">> >>) >>}
\* the texts a document may hand to extractOne
FuzzyTexts == {<<"Technologies">>, <<"SKILLS">>, <<"Google">>, <<"google">>}
FoundTables(obj) ==
    {found \in [FuzzyTexts -> SetOf(obj.skill_index) \cup {NoName}] :
        \A t \in FuzzyTexts : found[t] \in FoundOn(obj, t)}

InitConc ==
    /\ FieldsIdle /\ DateIdle
    /\ SkillIdle /\ PiiIdle /\ TextIdle
    /\ cc_self \in {PipelineObject(cfg, ontology) :
                        cfg \in PipelineConfigs, ontology \in PipelineOntologies}
    /\ cc_built = cc_self
    /\ cc_found \in FoundTables(cc_self.skill_normalizer)
    /\ cc_docs \in [Threads -> {ProcessCvCall(raw_text) : raw_text \in PipelineDocuments}]

NextConc ==
    \E d \in Threads :
        \/ DetectStartStep(d)
        \/ DetectLineStep(d)
        \/ DetectEndStep(d)
        \/ DetectBlockLineStep(d)
        \/ DetectReturnStep(d)
        \/ ParseCvStep(d)
        \/ ExtractStep(d)
        \/ NormalizeTextStep(d)
        \/ NormalizedStep(d)
        \/ BuildResumeStep(d)

SpecConc == InitConc /\ [][NextConc]_vars

\* C26: two documents processed concurrently through one shared pipeline object
\* each end with the resume process_cv gives the document when it runs alone,
\* whatever the interleaving of their steps, and no step changes a field of the
\* shared object.
Done(d) == cc_docs[d].pc = "done"
====
